---- MODULE Spec2Model ----
(***************************************************************************)
(* A model of the OpenApiDriver test executor: building valid request      *)
(* data, invalidating it for an expected error status, sending it and      *)
(* validating the outcome (src/src/OpenApiDriver).                          *)
(*                                                                         *)
(* Python exceptions are modelled as the `err` field of a result record    *)
(* ("" when the call returned).  random.choice / random.shuffle / uuid4    *)
(* and the answers of the API under test are nondeterministic: operators   *)
(* that depend on them yield the SET of their possible results.            *)
(***************************************************************************)
EXTENDS Integers, Sequences, FiniteSets, TLC

(***************************************************************************)
(* JSON values.  Every value is a record [t, n, s]: t the JSON type, n the *)
(* number (booleans: 0/1), s the characters of a string or the item tags   *)
(* of a structured value, so that values of different types compare.       *)
(***************************************************************************)
IntV(i) == [t |-> "integer", n |-> i, s |-> <<>>]
StrV(chars) == [t |-> "string", n |-> 0, s |-> chars]
BoolV(b) == [t |-> "boolean", n |-> IF b THEN 1 ELSE 0, s |-> <<>>]
NoneV == [t |-> "null", n |-> 0, s |-> <<>>]
\* a nested object built by the recursion of get_dto_data: its property names
ObjV(names) == [t |-> "object", n |-> 0, s |-> names]
\* the type-flip value [{"invalid": [None]}]
NestedInvalid == [t |-> "array", n |-> 0, s |-> <<"{invalid: [None]}">>]
\* uuid4().int and uuid4().int / 3.14: numbers far outside the JSON range
UuidInt == [t |-> "integer", n |-> 0, s |-> <<"uuid4().int">>]
UuidFloat == [t |-> "number", n |-> 0, s |-> <<"uuid4().int / 3.14">>]

\* Python truthiness of a value
Truthy(v) ==
    CASE v.t \in {"integer", "number", "boolean"} -> v.n # 0 \/ v.s # <<>>
      [] v.t = "null" -> FALSE
      [] OTHER -> v.s # <<>>

\* uuid4().hex is 32 characters; the k-th draw is 32 times the k-th token, so
\* that two draws never collide
HexLen == 32
BuildDraws == {"a", "b"}
InvalidDraws == {"x", "y"}
Hex(token) == StrV([i \in 1..HexLen |-> token])

None == <<>>
Some(x) == <<x>>

(***************************************************************************)
(* dto_base.py: the relations.                                             *)
(***************************************************************************)
Relation(kind, property_name, error_code) ==
    [kind |-> kind, property_name |-> property_name, error_code |-> error_code,
     values |-> <<>>, value |-> NoneV, path |-> <<>>, operation_id |-> ""]

PathPropertiesConstraint(path) ==
    [Relation("PathPropertiesConstraint", "id", 404) EXCEPT !.path = path]

PropertyValueConstraint(property_name, values, error_code) ==
    [Relation("PropertyValueConstraint", property_name, error_code)
        EXCEPT !.values = values]

IdDependency(property_name, get_path, operation_id, error_code) ==
    [Relation("IdDependency", property_name, error_code)
        EXCEPT !.path = get_path, !.operation_id = operation_id]

IdReference(property_name, post_path, error_code) ==
    [Relation("IdReference", property_name, error_code) EXCEPT !.path = post_path]

UniquePropertyValueConstraint(property_name, value, error_code) ==
    [Relation("UniquePropertyValueConstraint", property_name, error_code)
        EXCEPT !.value = value]

\* the elements of a sequence that satisfy Test, in order
RECURSIVE SelectIdx(_, _)
SelectIdx(seq, keep) ==
    IF seq = <<>> THEN <<>>
    ELSE (IF Len(seq) \in keep THEN SelectIdx(SubSeq(seq, 1, Len(seq) - 1), keep)
             \o <<seq[Len(seq)]>>
          ELSE SelectIdx(SubSeq(seq, 1, Len(seq) - 1), keep))

Range(seq) == {seq[i] : i \in DOMAIN seq}

\* DtoBase.get_relations_for_error_code / get_parameter_relations_for_error_code
get_relations_for_error_code(relations, error_code) ==
    SelectIdx(relations, {i \in DOMAIN relations : relations[i].error_code = error_code})


(***************************************************************************)
(* value_utils.py: valid values.                                           *)
(***************************************************************************)
\* the IGNORE sentinel (value_utils.py line 7)
IGNORE == [t |-> "IGNORE", n |-> 0, s |-> <<>>]
\* an exception raised where a value was expected
Raised(exception) == [t |-> "error", n |-> 0, s |-> <<exception>>]
IsRaised(v) == v.t = "error"

\* str(value): a string holds the printed form of the value it was made from
StrOf(v) == IF v.t = "string" THEN v
            ELSE [t |-> "string", n |-> v.n, s |-> <<"str", v.t>> \o v.s]

\* a leaf schema; absent keys are None (enum: the empty list)
LeafSchema(type) ==
    [type |-> type, enum |-> <<>>, minimum |-> None, maximum |-> None,
     minLength |-> None, maxLength |-> None,
     exclusiveMinimum |-> FALSE, exclusiveMaximum |-> FALSE, properties |-> <<>>,
     format |-> None]

GetOr(opt, default) == IF opt = None THEN default ELSE opt[1]

\* the integers randint can return that the model follows: both ends of the
\* range and the values next to zero
ProbeInts == -1 .. 2

\* an integer of 64 bits: sign * 2**63 + n (sign 0: the integer n itself)
Int64(sign, n) ==
    [t |-> "integer", n |-> n,
     s |-> IF sign = 0 THEN <<>> ELSE IF sign < 0 THEN <<"-2**63">> ELSE <<"2**63">>]
Sign(v) == IF v.s = <<>> THEN 0 ELSE IF v.s = <<"-2**63">> THEN -1 ELSE 1
\* a <= b on integers
IntLeq(a, b) == Sign(a) < Sign(b) \/ (Sign(a) = Sign(b) /\ a.n <= b.n)

\* (the mutant: the exclusive flags are not looked at)
get_random_int_inclusive(value_schema) ==
    LET int64 == value_schema.format = Some("int64")
        min_int == IF int64 THEN Int64(-1, 0) ELSE IntV(-2147483647 - 1)
        max_int == IF int64 THEN Int64(1, -1) ELSE IntV(2147483647)
        minimum == IF value_schema.minimum = None THEN min_int
                   ELSE IntV(value_schema.minimum[1])
        maximum == IF value_schema.maximum = None THEN max_int
                   ELSE IntV(value_schema.maximum[1])
    IN  IF ~IntLeq(minimum, maximum) THEN {Raised("ValueError")}
        ELSE {minimum, maximum}
             \cup {IntV(j) : j \in {i \in ProbeInts : /\ IntLeq(minimum, IntV(i))
                                                      /\ IntLeq(IntV(i), maximum)}}
get_random_int(value_schema) ==
    LET int64 == value_schema.format = Some("int64")
        min_int == IF int64 THEN Int64(-1, 0) ELSE IntV(-2147483647 - 1)
        max_int == IF int64 THEN Int64(1, -1) ELSE IntV(2147483647)
        minimum0 == IF value_schema.minimum = None THEN min_int
                    ELSE IntV(value_schema.minimum[1])
        maximum0 == IF value_schema.maximum = None THEN max_int
                    ELSE IntV(value_schema.maximum[1])
        minimum == [minimum0 EXCEPT
                       !.n = @ + (IF value_schema.exclusiveMinimum THEN 1 ELSE 0)]
        maximum == [maximum0 EXCEPT
                       !.n = @ - (IF value_schema.exclusiveMaximum THEN 1 ELSE 0)]
    IN  IF ~IntLeq(minimum, maximum) THEN {Raised("ValueError")}
        ELSE {minimum, maximum}
             \cup {IntV(j) : j \in {i \in ProbeInts : /\ IntLeq(minimum, IntV(i))
                                                      /\ IntLeq(IntV(i), maximum)}}

\* numbers are followed at their integral points
NumV(i) == [t |-> "number", n |-> i, s |-> <<>>]

get_random_float(value_schema) ==
    LET min0 == value_schema.minimum
        max0 == value_schema.maximum
        minimum == IF min0 = None THEN (IF max0 = None THEN -1 ELSE max0[1] - 1)
                   ELSE min0[1]
        maximum == IF max0 = None THEN (IF min0 = None THEN 1 ELSE min0[1] + 1)
                   ELSE max0[1]
        exclusive == value_schema.exclusiveMinimum \/ value_schema.exclusiveMaximum
    IN  IF min0 # None /\ maximum < minimum THEN {Raised("ValueError")}
        ELSE IF exclusive /\ minimum = maximum THEN {Raised("ValueError")}
        ELSE IF exclusive
             THEN {NumV(i) : i \in {j \in minimum .. maximum : minimum < j /\ j < maximum}}
             ELSE {NumV(i) : i \in {minimum, maximum}}

Min(a, b) == IF a < b THEN a ELSE b

\* chunks of uuid4().hex until the minimum length is reached, cut at the maximum
get_random_string(value_schema, draws) ==
    LET minimum == GetOr(value_schema.minLength, 0)
        maximum0 == GetOr(value_schema.maxLength, 36)
        maximum == IF minimum > maximum0 THEN minimum ELSE maximum0
        chunks == IF minimum <= HexLen THEN 1
                  ELSE (minimum + HexLen - 1) \div HexLen
        length == Min(chunks * HexLen, maximum)
    IN  {StrV([i \in 1 .. length |-> f[((i - 1) \div HexLen) + 1]]) :
            f \in [1 .. chunks -> draws]}

\* get_valid_value: the set of values one call can return
get_valid_value(value_schema, draws) ==
    IF value_schema.enum # <<>> THEN Range(value_schema.enum)
    ELSE CASE value_schema.type = "boolean" -> {BoolV(TRUE), BoolV(FALSE)}
           [] value_schema.type = "integer" -> get_random_int(value_schema)
           [] value_schema.type = "number" -> get_random_float(value_schema)
           [] value_schema.type = "string" -> get_random_string(value_schema, draws)
           [] OTHER -> {Raised("NotImplementedError")}

(***************************************************************************)
(* The OpenAPI document, the user's Dto mapping and the API's responses.   *)
(***************************************************************************)
\* An endpoint or url is the list of its parts, split on "/": "/r/{id}" is
\* <<"", "r", "{id}">>.  base_url is the same prefix of every url and is left
\* out, so url.replace(self.base_url, "") is the url itself.
ParamParts == {"{id}", "{sub}"}
IsParam(part) == part \in ParamParts    \* part.startswith("{") [and endswith("}")]

EmptySchema == [keys |-> {}, properties |-> <<>>, required |-> <<>>, allOf |-> <<>>]
\* a body schema: `properties` lists [name, schema] in document order
ObjectSchema(properties, required) ==
    [keys |-> {"type", "properties"} \cup (IF required = <<>> THEN {} ELSE {"required"}),
     properties |-> properties, required |-> required, allOf |-> <<>>]

Prop(name, schema) == [name |-> name, schema |-> schema]
Names(properties) == [i \in DOMAIN properties |-> properties[i].name]
Param(name, in, required, schema) ==
    [name |-> name, in |-> in, required |-> required, schema |-> schema]

\* one operation of the paths section
Operation(operationId, parameters, requestBody) ==
    [operationId |-> operationId, parameters |-> parameters,
     requestBody |-> requestBody]
JsonBody(schema) == Some([content_type |-> "application/json", schema |-> schema])

\* a response of the API under test
Response(status_code, kind, id, href, items) ==
    [status_code |-> status_code, kind |-> kind, id |-> id, href |-> href,
     items |-> items]
\* requests.Response.ok: no 4xx or 5xx status
ok(response) == response.status_code < 400

\* the Dto class of an operation: its relations
DtoClass(relations, parameter_relations) ==
    [relations |-> relations, parameter_relations |-> parameter_relations]
DefaultDto == DtoClass(<<>>, <<>>)

\* str.lower() on the method names in use
lower(method) ==
    CASE method = "GET" -> "get" [] method = "POST" -> "post"
      [] method = "PUT" -> "put" [] method = "PATCH" -> "patch"
      [] method = "DELETE" -> "delete" [] OTHER -> method

\* dto_utils.get_dto_class.__call__
get_dto_class(w, endpoint, method) ==
    IF <<endpoint, lower(method)>> \in DOMAIN w.dto_mapping
    THEN w.dto_mapping[<<endpoint, lower(method)>>]
    ELSE DefaultDto

\* the paths of the document, in document order
PathIndex(w, path) == {i \in DOMAIN w.paths : w.paths[i].path = path}
Operations(w, path) == w.paths[CHOOSE i \in PathIndex(w, path) : TRUE].operations

\* match_parts of get_parametrized_endpoint (zip_longest with a filler)
match_parts(parts, spec_parts) ==
    /\ Len(parts) = Len(spec_parts)
    /\ \A i \in DOMAIN parts :
          /\ parts[i] # "Filler" /\ spec_parts[i] # "Filler"
          /\ (parts[i] = spec_parts[i] \/ IsParam(spec_parts[i]))

\* get_parametrized_endpoint: Some(first matching path) or None (ValueError)
get_parametrized_endpoint(w, endpoint) ==
    LET endpoint_parts ==
            IF Len(endpoint) > 2 /\ endpoint[Len(endpoint)] = ""
            THEN SubSeq(endpoint, 1, Len(endpoint) - 1) ELSE endpoint
        matches == {i \in DOMAIN w.paths : match_parts(endpoint_parts, w.paths[i].path)}
    IN  IF matches = {} THEN None
        ELSE Some(w.paths[CHOOSE i \in matches : \A j \in matches : i <= j].path)

\* Python dicts are functions from their keys
EmptyDict == [k \in {} |-> NoneV]
Put(dict, key, value) ==
    [k \in DOMAIN dict \cup {key} |-> IF k = key THEN value ELSE dict[k]]

\* get_parameter_data: the set of [err, data] one call can yield
RECURSIVE get_parameter_data(_, _)
get_parameter_data(parameters, parameter_relations) ==
    IF parameters = <<>> THEN {[err |-> "", data |-> EmptyDict]}
    ELSE
      LET parameter == parameters[Len(parameters)]
          before == get_parameter_data(SubSeq(parameters, 1, Len(parameters) - 1),
                                       parameter_relations)
          constrained_values ==
              SelectIdx(parameter_relations,
                  {i \in DOMAIN parameter_relations :
                      /\ parameter_relations[i].property_name = parameter.name
                      /\ parameter_relations[i].kind = "PropertyValueConstraint"})
          \* choice(*constrained_values)
          values == IF Len(constrained_values) # 1 THEN {Raised("TypeError")}
                    ELSE IF constrained_values[1].values = <<>>
                         THEN {Raised("IndexError")}
                         ELSE Range(constrained_values[1].values)
          chosen == IF constrained_values # <<>> THEN values
                    ELSE get_valid_value(parameter.schema, BuildDraws)
      IN  UNION {
            IF b.err # "" THEN {b}
            ELSE {IF IsRaised(v) THEN [err |-> v.s[1], data |-> EmptyDict]
                  ELSE IF v = IGNORE /\ constrained_values # <<>> THEN b
                  ELSE [err |-> "", data |-> Put(b.data, parameter.name, StrOf(v))]
                  : v \in chosen}
            : b \in before}

(***************************************************************************)
(* openapi_executors.py: resolve_schema and _merge_schemas.                *)
(***************************************************************************)
\* dict.update on property lists: same-named entries are replaced in place,
\* new ones are added at the end
UpdateProperties(first, second) ==
    LET last(name) == CHOOSE i \in DOMAIN second :
                          /\ second[i].name = name
                          /\ \A j \in DOMAIN second : second[j].name = name => j <= i
        replaced == [i \in DOMAIN first |->
                        IF first[i].name \in Range(Names(second))
                        THEN second[last(first[i].name)] ELSE first[i]]
    IN  replaced \o SelectIdx(second,
            {i \in DOMAIN second : /\ second[i].name \notin Range(Names(first))
                                   /\ i = last(second[i].name)})

_merge_schemas(first, second) ==
    [keys |-> first.keys \cup second.keys,
     properties |-> IF "properties" \in second.keys
                    THEN (IF "properties" \in first.keys
                          THEN UpdateProperties(first.properties, second.properties)
                          ELSE second.properties)
                    ELSE first.properties,
     required |-> IF "required" \in second.keys
                  THEN (IF "required" \in first.keys
                        THEN first.required \o second.required
                        ELSE second.required)
                  ELSE first.required,
     allOf |-> IF "allOf" \in first.keys THEN first.allOf ELSE second.allOf]

RECURSIVE resolve_parts_into(_, _)
RECURSIVE resolve_schema(_)
resolve_schema(schema) ==
    LET resolved_schema == [schema EXCEPT !.keys = @ \ {"allOf"}, !.allOf = <<>>]
    IN  IF "allOf" \in schema.keys /\ schema.allOf # <<>>
        THEN resolve_parts_into(resolved_schema, schema.allOf)
        ELSE resolved_schema

resolve_parts_into(resolved_schema, schema_parts) ==
    IF schema_parts = <<>> THEN resolved_schema
    ELSE resolve_parts_into(
             _merge_schemas(resolved_schema, resolve_schema(Head(schema_parts))),
             Tail(schema_parts))

(***************************************************************************)
(* openapi_executors.py: building valid request data.                      *)
(***************************************************************************)
\* the ids the API hands out; 0 is an id that Python takes for false
Ids == {StrV(<<"7">>), StrV(<<"8">>), IntV(0)}
\* the part of a url that holds a string id
IdPart(id) == id.s[1]

\* the answers of the API to a request that creates or lists a resource
IdAnswers ==
    {Response(st, "dict", Some(i), "none", None) : st \in {201, 422}, i \in Ids}
    \cup {Response(201, "dict", None, "none", None),
          Response(201, "nonjson", None, "none", None),
          Response(201, "list", None, "none", Some(<<StrV(<<"7">>), StrV(<<"8">>)>>)),
          Response(201, "dict", Some(StrV(<<"7">>)), "self", None),
          Response(201, "dict", Some(StrV(<<"7">>)), "parent",
                   Some(<<StrV(<<"7">>), StrV(<<"8">>)>>)),
          Response(201, "dict", Some(StrV(<<"7">>)), "parent", None),
          Response(200, "dict", None, "none", Some(<<StrV(<<"8">>)>>))}

RequestData(dto, dto_schema, parameters, params, headers) ==
    [err |-> "", dto |-> dto, dto_schema |-> dto_schema, parameters |-> parameters,
     params |-> params, headers |-> headers]
\* a Dto instance: its class and its fields (asdict)
DtoInstance(class, data) == [class |-> class, data |-> data]
NoRequestData(exception) ==
    [err |-> exception, dto |-> DtoInstance(DefaultDto, EmptyDict),
     dto_schema |-> EmptySchema, parameters |-> <<>>, params |-> EmptyDict,
     headers |-> EmptyDict]
NoId(exception, sent) == [err |-> exception, id |-> NoneV, sent |-> sent]
NoUrl(exception) == [err |-> exception, url |-> <<>>]
NoData(exception, calls) == [err |-> exception, data |-> EmptyDict, calls |-> calls]

RECURSIVE get_valid_url(_, _, _)
RECURSIVE resolve_path_parts(_, _, _, _)
RECURSIVE get_valid_id_for_endpoint(_, _, _)
RECURSIVE get_request_data(_, _, _)
RECURSIVE get_dto_data(_, _, _, _)
RECURSIVE dto_data_from(_, _, _, _, _)

\* get_constrained_values of get_dto_data: the values of the last
\* PropertyValueConstraint on the property, or []
get_constrained_values(dto, property_name) ==
    LET values == SelectIdx(dto.relations,
                      {i \in DOMAIN dto.relations :
                          /\ dto.relations[i].kind = "PropertyValueConstraint"
                          /\ dto.relations[i].property_name = property_name})
    IN  IF values # <<>> THEN values[Len(values)].values ELSE <<>>

\* id_get_path with the first IdDependency on the property always followed
id_get_path_first(dto, property_name, operation_id) ==
    LET id_get_paths == SelectIdx(dto.relations,
                            {i \in DOMAIN dto.relations :
                                /\ dto.relations[i].kind = "IdDependency"
                                /\ dto.relations[i].property_name = property_name})
    IN  IF id_get_paths = <<>> THEN None ELSE Some(id_get_paths[1].path)

\* get_dependent_id of get_dto_data, up to its call: the get_path it asks a
\* valid id for, or None when it returns None without asking
id_get_path(dto, property_name, operation_id) ==
    LET id_get_paths == SelectIdx(dto.relations,
                            {i \in DOMAIN dto.relations :
                                /\ dto.relations[i].kind = "IdDependency"
                                /\ dto.relations[i].property_name = property_name})
        for_operation == SelectIdx(id_get_paths,
                            {i \in DOMAIN id_get_paths :
                                id_get_paths[i].operation_id = operation_id})
    IN  IF id_get_paths = <<>> THEN None
        ELSE IF Len(id_get_paths) = 1 THEN Some(id_get_paths[1].path)
        ELSE IF Len(for_operation) = 1 THEN Some(for_operation[1].path)
        ELSE None      \* ValueError of the unpacking, caught

\* get_dto_data, from the property at `index` on, with the data built so far
dto_data_from(w, schema, dto, operation_id, built) ==
    LET index == built.index
    IN
    IF index > Len(schema.properties) THEN {[built EXCEPT !.index = 0]}
    ELSE
      LET property_name == schema.properties[index].name
          value_schema == schema.properties[index].schema
          constrained_values == get_constrained_values(dto, property_name)
          get_path == id_get_path(dto, property_name, operation_id)
          next(value, calls) ==
              dto_data_from(w, schema, dto, operation_id,
                  [err |-> "", data |-> Put(built.data, property_name, value),
                   calls |-> calls, index |-> index + 1])
          fail(exception, calls) ==
              {[err |-> exception, data |-> EmptyDict, calls |-> calls, index |-> 0]}
          \* the property is an object (recursion with the default Dto) or a leaf
          plain(calls) ==
              IF value_schema.type = "object"
              THEN UNION {IF o.err # "" THEN fail(o.err, calls)
                          ELSE next(ObjV(Names(value_schema.properties)), calls)
                          : o \in get_dto_data(w,
                                      ObjectSchema(value_schema.properties, <<>>),
                                      get_dto_class(w, <<"">>, ""), "")}
              ELSE UNION {IF IsRaised(v) THEN fail(v.s[1], calls)
                          ELSE next(v, calls)
                          : v \in get_valid_value(value_schema, BuildDraws)}
      IN  IF constrained_values # <<>>
          THEN UNION {next(v, built.calls) : v \in Range(constrained_values)}
          ELSE IF get_path # None
          THEN UNION {
                 LET calls == Append(built.calls, [path |-> get_path[1], id |-> r.id])
                 IN  IF r.err # "" THEN fail(r.err, built.calls)
                     ELSE IF Truthy(r.id) THEN next(r.id, calls)
                     ELSE plain(calls)
                 : r \in get_valid_id_for_endpoint(w, get_path[1], "GET")}
          ELSE plain(built.calls)

get_dto_data(w, schema, dto, operation_id) ==
    {[err |-> b.err, data |-> b.data, calls |-> b.calls] :
        b \in dto_data_from(w, schema, dto, operation_id,
                  [err |-> "", data |-> EmptyDict, calls |-> <<>>, index |-> 1])}

\* get_request_data: the set of RequestData (or exceptions) one call can yield
get_request_data(w, endpoint, method0) ==
    LET method == lower(method0)
        spec_endpoint == get_parametrized_endpoint(w, endpoint)
    IN
    IF spec_endpoint = None THEN {NoRequestData("ValueError")}
    ELSE IF method \notin DOMAIN Operations(w, spec_endpoint[1])
    THEN {NoRequestData("NotImplementedError")}
    ELSE
      LET method_spec == Operations(w, spec_endpoint[1])[method]
          dto_class == get_dto_class(w, spec_endpoint[1], method)
          parameters == method_spec.parameters
          query_params == SelectIdx(parameters,
                              {i \in DOMAIN parameters : parameters[i].in = "query"})
          header_params == SelectIdx(parameters,
                              {i \in DOMAIN parameters : parameters[i].in = "header"})
          body_spec == method_spec.requestBody
      IN  UNION {UNION {
            IF params.err # "" THEN {NoRequestData(params.err)}
            ELSE IF headers.err # "" THEN {NoRequestData(headers.err)}
            ELSE IF body_spec = None
            THEN {RequestData(DtoInstance(dto_class, EmptyDict), EmptySchema,
                              parameters, params.data, headers.data)}
            ELSE IF body_spec[1].content_type # "application/json"
            THEN {NoRequestData("NotImplementedError")}
            ELSE LET resolved_schema == resolve_schema(body_spec[1].schema)
                 IN  {IF dto_data.err # "" THEN NoRequestData(dto_data.err)
                      ELSE RequestData(DtoInstance(dto_class, dto_data.data),
                                       resolved_schema, parameters, params.data,
                                       headers.data)
                      : dto_data \in get_dto_data(w, resolved_schema, dto_class,
                                                  method_spec.operationId)}
            : headers \in get_parameter_data(header_params,
                                             dto_class.parameter_relations)}
            : params \in get_parameter_data(query_params,
                                            dto_class.parameter_relations)}

\* the loop of get_valid_url over the parts of the endpoint, from `index` on
resolve_path_parts(w, endpoint_parts, index, method) ==
    IF index > Len(endpoint_parts) THEN {[err |-> "", url |-> endpoint_parts]}
    ELSE IF ~IsParam(endpoint_parts[index])
    THEN resolve_path_parts(w, endpoint_parts, index + 1, method)
    ELSE UNION {
           IF existing.err # "" THEN {NoUrl(existing.err)}
           ELSE IF ~Truthy(existing.id) THEN {NoUrl("Exception")}
           \* "/".join(...) takes strings only
           ELSE IF existing.id.t # "string" THEN {NoUrl("TypeError")}
           ELSE resolve_path_parts(w,
                    [endpoint_parts EXCEPT ![index] = IdPart(existing.id)],
                    index + 1, method)
           : existing \in get_valid_id_for_endpoint(w,
                              SubSeq(endpoint_parts, 1, index - 1), method)}

get_valid_url(w, endpoint, method) ==
    LET relations == get_dto_class(w, endpoint, method).relations
        paths == {relations[i].path : i \in {j \in DOMAIN relations :
                      relations[j].kind = "PathPropertiesConstraint"}}
    IN  IF paths # {} THEN {[err |-> "", url |-> path] : path \in paths}
        ELSE resolve_path_parts(w, endpoint, 1, method)

\* authorized_request: the transport answers every request with a response
authorized_request(url, method, answers) ==
    {[err |-> "", response |-> a] : a \in answers}

\* the except-branch of get_valid_id_for_endpoint: an existing id through GET
get_existing_id(w, endpoint, url, sent) ==
    UNION {
      IF request_data.err # "" THEN {NoId(request_data.err, sent)}
      ELSE UNION {
        LET response == got.response
            items == GetOr(response.items, <<>>)
            sent_get == Append(sent, "GET")
        IN  IF ~ok(response) THEN {NoId("AssertionError", sent_get)}
            ELSE IF response.kind = "nonjson" THEN {NoId("JSONDecodeError", sent_get)}
            ELSE IF response.kind = "list"
            THEN (IF items = <<>> THEN {NoId("IndexError", sent_get)}
                  ELSE {[err |-> "", id |-> i, sent |-> sent_get] : i \in Range(items)})
            ELSE IF response.id # None /\ Truthy(response.id[1])
            THEN {[err |-> "", id |-> response.id[1], sent |-> sent_get]}
            ELSE IF response.items = None THEN {NoId("KeyError", sent_get)}
            ELSE IF items = <<>> THEN {NoId("IndexError", sent_get)}
            ELSE {[err |-> "", id |-> i, sent |-> sent_get] : i \in Range(items)}
        : got \in authorized_request(url, "GET", IdAnswers)}
      : request_data \in get_request_data(w, endpoint, "GET")}

\* the id of the resource a POST created, from the response to it
created_id(response, send_json, sent) ==
    IF ~ok(response) THEN {NoId("AssertionError", sent)}
    ELSE IF response.kind = "nonjson" THEN {NoId("JSONDecodeError", sent)}
    ELSE IF response.kind = "dict" /\ response.href = "parent"
    \* the response is the parent resource: look the sent id up in its list
    THEN (IF response.items = None THEN {NoId("KeyError", sent)}
          ELSE IF "id" \notin DOMAIN send_json THEN {NoId("KeyError", sent)}
          ELSE LET found == SelectIdx(response.items[1],
                               {i \in DOMAIN response.items[1] :
                                   response.items[1][i] = send_json["id"]})
               IN  IF Len(found) = 1
                   THEN {[err |-> "", id |-> found[1], sent |-> sent]}
                   ELSE {NoId("ValueError", sent)})
    ELSE IF response.kind = "list" THEN {NoId("TypeError", sent)}
    ELSE IF response.id = None THEN {NoId("KeyError", sent)}
    ELSE {[err |-> "", id |-> response.id[1], sent |-> sent]}

\* get_valid_id_for_endpoint: the set of [err, id, sent] one call can yield;
\* sent lists the requests of this call that were answered
get_valid_id_for_endpoint(w, endpoint, method) ==
    UNION {
      IF valid_url.err # "" THEN {NoId(valid_url.err, <<>>)}
      ELSE UNION {
        \* line 337 is outside the try
        IF request_data.err # "" THEN {NoId(request_data.err, <<>>)}
        ELSE UNION {
          IF attempt.err = "NotImplementedError"
          THEN get_existing_id(w, endpoint, valid_url.url, <<>>)
          ELSE IF attempt.err # "" THEN {NoId(attempt.err, <<>>)}
          ELSE created_id(attempt.response, request_data.dto.data, <<"POST">>)
          : attempt \in authorized_request(valid_url.url, "POST", IdAnswers)}
        : request_data \in get_request_data(w, endpoint, "POST")}
      : valid_url \in get_valid_url(w, endpoint, method)}

(***************************************************************************)
(* value_utils.py: invalid values.                                         *)
(***************************************************************************)
Abs(i) == IF i < 0 THEN -i ELSE i
\* value + value on numbers, strings and arrays
Plus(a, b) == [t |-> a.t, n |-> a.n + b.n, s |-> a.s \o b.s]
AbsV(a) == [a EXCEPT !.n = Abs(@)]
\* (the mutant: the value itself)
NotNot(v) == BoolV(Truthy(v))
Not(v) == BoolV(~Truthy(v))
\* current_value[0 : stop]
Slice(v, stop) ==
    [v EXCEPT !.s = IF stop < 0 THEN SubSeq(@, 1, Len(@) + stop)
                    ELSE SubSeq(@, 1, Min(stop, Len(@)))]

RECURSIVE FoldPlus(_, _, _)
\* start (+) seq[1] (+) ... (+) seq[n], with abs() on both sides when absolute
FoldPlus(start, seq, absolute) ==
    IF seq = <<>> THEN start
    ELSE FoldPlus(IF absolute THEN Plus(AbsV(start), AbsV(Head(seq)))
                  ELSE Plus(start, Head(seq)),
                  Tail(seq), absolute)

get_invalid_value_from_constraint(values_from_constraint, value_type) ==
    IF IGNORE \in Range(values_from_constraint) THEN IGNORE
    ELSE IF Len(values_from_constraint) = 1 /\ value_type = "boolean"
    THEN Not(values_from_constraint[1])
    ELSE IF value_type \notin {"string", "integer", "number", "array"}
            \/ values_from_constraint = <<>>
    THEN NoneV
    ELSE LET doubled == values_from_constraint \o values_from_constraint
             popped == doubled[Len(doubled)]
             invalid_values == SubSeq(doubled, 1, Len(doubled) - 1)
         IN  IF value_type \in {"integer", "number"}
             THEN LET invalid_value == FoldPlus(popped, invalid_values, TRUE)
                  IN  IF ~Truthy(invalid_value)
                      THEN [invalid_value EXCEPT !.n = @ + 1] ELSE invalid_value
             ELSE LET invalid_value == FoldPlus(popped, invalid_values, FALSE)
                  IN  IF Truthy(invalid_value) THEN invalid_value ELSE NoneV

\* the object case of get_invalid_value_from_enum: an object is the list of
\* its field values; fields are overwritten one by one with those of each enum
\* value until the result is no member of the enum
RECURSIVE scramble(_, _, _, _)
scramble(invalid_value, values, at, key) ==
    IF at > Len(values) THEN invalid_value
    ELSE IF key > Len(invalid_value.s) THEN scramble(invalid_value, values, at + 1, 1)
    ELSE LET changed == [invalid_value EXCEPT
                            !.s[key] = IF key \in DOMAIN values[at].s
                                       THEN values[at].s[key] ELSE "None"]
         IN  IF changed \notin Range(values) THEN changed
             ELSE scramble(changed, values, at, key + 1)

get_invalid_value_from_enum(values, value_type) ==
    CASE value_type = "string" -> FoldPlus(StrV(<<>>), values, FALSE)
      [] value_type \in {"integer", "number"} ->
            FoldPlus([t |-> value_type, n |-> 0, s |-> <<>>], values, TRUE)
      [] value_type = "array" ->
            FoldPlus([t |-> "array", n |-> 0, s |-> <<>>], values, FALSE)
      [] value_type = "object" -> scramble(values[1], values, 1, 1)
      [] OTHER -> NoneV

\* get_value_out_of_bounds: the set of values one call can return (the
\* characters that pad a string are drawn from the string)
get_value_out_of_bounds(value_schema, current_value) ==
    LET minimum == GetOr(value_schema.minimum, 0)
        maximum == GetOr(value_schema.maximum, 0)
        minLength == GetOr(value_schema.minLength, 0)
        maxLength == GetOr(value_schema.maxLength, 0)
        number(i) == [t |-> value_schema.type, n |-> i, s |-> <<>>]
    IN  IF value_schema.type \in {"integer", "number"} /\ minimum # 0
        THEN {number(minimum - 1)}
        ELSE IF value_schema.type \in {"integer", "number"} /\ maximum # 0
        THEN {number(maximum + 1)}
        ELSE IF value_schema.type \in {"integer", "number"}
                /\ value_schema.exclusiveMinimum
        THEN {BoolV(TRUE)}
        ELSE IF value_schema.type \in {"integer", "number"}
                /\ value_schema.exclusiveMaximum
        THEN {BoolV(TRUE)}
        ELSE IF value_schema.type = "string" /\ minLength # 0
        THEN {Slice(current_value, minLength - 1)}
        ELSE IF value_schema.type = "string" /\ maxLength # 0
        THEN LET invalid_value == IF Truthy(current_value) THEN current_value
                                  ELSE StrV(<<"x">>)
                 more == maxLength + 1 - Len(invalid_value.s)
             IN  IF more <= 0 THEN {invalid_value}
                 ELSE {[invalid_value EXCEPT !.s = @ \o [i \in 1 .. more |-> c]] :
                          c \in Range(invalid_value.s)}
        ELSE {NoneV}

\* (the mutant: the enum is looked at before the constraint values)
get_invalid_value_enum_first(value_schema, current_value, values_from_constraint) ==
    LET from_constraint ==
            IF values_from_constraint # <<>>
            THEN get_invalid_value_from_constraint(values_from_constraint,
                                                   value_schema.type)
            ELSE NoneV
        from_enum ==
            IF value_schema.enum # <<>>
            THEN get_invalid_value_from_enum(value_schema.enum, value_schema.type)
            ELSE NoneV
        out_of_bounds == get_value_out_of_bounds(value_schema, current_value)
    IN  IF from_enum # NoneV THEN {from_enum}
        ELSE IF from_constraint # NoneV THEN {from_constraint}
        ELSE UNION {IF v # NoneV THEN {v}
                    ELSE IF value_schema.type = "string" THEN {NestedInvalid}
                    ELSE {Hex(x) : x \in InvalidDraws}
                    : v \in out_of_bounds}
\* get_invalid_value: the set of values one call can return
get_invalid_value(value_schema, current_value, values_from_constraint) ==
    LET from_constraint ==
            IF values_from_constraint # <<>>
            THEN get_invalid_value_from_constraint(values_from_constraint,
                                                   value_schema.type)
            ELSE NoneV
        from_enum ==
            IF value_schema.enum # <<>>
            THEN get_invalid_value_from_enum(value_schema.enum, value_schema.type)
            ELSE NoneV
        out_of_bounds == get_value_out_of_bounds(value_schema, current_value)
    IN  IF from_constraint # NoneV THEN {from_constraint}
        ELSE IF from_enum # NoneV THEN {from_enum}
        ELSE UNION {IF v # NoneV THEN {v}
                    ELSE IF value_schema.type = "string" THEN {NestedInvalid}
                    ELSE {Hex(x) : x \in InvalidDraws}
                    : v \in out_of_bounds}

(***************************************************************************)
(* dto_base.py: DtoBase.get_invalidated_data.                              *)
(***************************************************************************)
Failed(exception) == [err |-> exception, data |-> EmptyDict]
Returned(data) == [err |-> "", data |-> data]

\* the nested get_invalid_value_from_enum of get_invalidated_data: no abs();
\* {}.update(value) over objects of one shape ends as the last of them
dto_get_invalid_value_from_enum(values, value_type) ==
    CASE value_type = "string" -> FoldPlus(StrV(<<>>), values, FALSE)
      [] value_type \in {"integer", "number"} ->
            FoldPlus([t |-> value_type, n |-> 0, s |-> <<>>], values, FALSE)
      [] value_type = "array" ->
            FoldPlus([t |-> "array", n |-> 0, s |-> <<>>], values, FALSE)
      [] value_type = "object" -> values[Len(values)]
      [] OTHER -> NoneV

\* schema["properties"][property_name]
property_schema(schema, property_name) ==
    LET at == {i \in DOMAIN schema.properties :
                  schema.properties[i].name = property_name}
    IN  IF at = {} THEN None
        ELSE Some(schema.properties[CHOOSE i \in at : \A j \in at : j <= i].schema)

\* one pass of the loop over the shuffled property names: what the pass
\* returns or raises, {} when it falls through to the next property
invalidate_property(properties, schema, property_name, constrained_property_names) ==
    IF "properties" \notin schema.keys
       \/ property_schema(schema, property_name) = None
    THEN {Failed("KeyError")}
    ELSE
      LET property_data == property_schema(schema, property_name)[1]
          property_type == property_data.type
          current_value == properties[property_name]
          set(value) == {Returned([properties EXCEPT ![property_name] = value])}
          number(i) == [t |-> property_type, n |-> i, s |-> <<>>]
          invalidated_value ==
              IF property_data.enum # <<>>
              THEN dto_get_invalid_value_from_enum(property_data.enum, property_type)
              ELSE NoneV
          constrained == property_name \in constrained_property_names
          minimum == GetOr(property_data.minimum, 0)
          maximum == GetOr(property_data.maximum, 0)
          minLength == GetOr(property_data.minLength, 0)
          maxLength == GetOr(property_data.maxLength, 0)
      IN  IF invalidated_value # NoneV THEN set(invalidated_value)
          ELSE IF property_type = "boolean" /\ constrained
          THEN set(Not(current_value))
          ELSE IF property_type \in {"integer", "number"} /\ minimum # 0
          THEN set(number(minimum - 1))
          ELSE IF property_type \in {"integer", "number"} /\ maximum # 0
          THEN set(number(maximum + 1))
          ELSE IF property_type = "integer" /\ constrained THEN set(UuidInt)
          ELSE IF property_type = "number" /\ constrained THEN set(UuidFloat)
          ELSE IF property_type = "string" /\ minLength > 0
          THEN (IF current_value.t # "string" THEN {Failed("TypeError")}
                ELSE set(Slice(current_value, minLength - 1)))
          ELSE IF property_type = "string" /\ maxLength # 0
          THEN (IF current_value.t # "string" THEN {Failed("TypeError")}
                ELSE UNION {set(Plus(current_value, Hex(x))) : x \in InvalidDraws})
          ELSE {}

\* the last loop: every property of the schema gets a value of another type
invalid_data_types(properties, schema) ==
    IF "properties" \notin schema.keys THEN {Failed("KeyError")}
    ELSE LET names == Range(Names(schema.properties))
         IN  {Returned([k \in DOMAIN properties \cup names |->
                  IF k \notin names THEN properties[k]
                  ELSE IF property_schema(schema, k)[1].type # "string"
                       THEN Hex(draw[k])
                       ELSE NestedInvalid])
              : draw \in [names -> InvalidDraws]}

\* DtoBase.get_invalidated_data(self, schema, status_code): the set of results
\* one call can have
get_invalidated_data(dto, schema, status_code) ==
    LET properties == dto.data
        relations == dto.class.relations
        broken == {i \in DOMAIN relations :
                      /\ relations[i].kind = "IdDependency"
                      /\ relations[i].error_code = status_code}
        constrained_property_names ==
            {relations[i].property_name : i \in
                {j \in DOMAIN relations :
                    relations[j].kind = "PropertyValueConstraint"}}
        violated == UNION {invalidate_property(properties, schema, property_name,
                                               constrained_property_names)
                           : property_name \in DOMAIN properties}
    IN  IF broken # {}
        THEN UNION {
               IF relations[i].property_name \notin DOMAIN properties
               THEN {Failed("KeyError")}
               ELSE {Returned([properties EXCEPT
                                  ![relations[i].property_name] = Hex(x)])
                     : x \in InvalidDraws}
               : i \in broken}
        ELSE IF violated # {} THEN violated
        ELSE invalid_data_types(properties, schema)

\* a call of dto.get_invalidated_data with the given keyword arguments: Python
\* binds them to the parameters (schema, status_code) first
call_get_invalidated_data(dto, schema, status_code, keywords) ==
    IF keywords \subseteq {"schema", "status_code"}
    THEN get_invalidated_data(dto, schema, status_code)
    ELSE {Failed("TypeError")}

(***************************************************************************)
(* openapi_executors.py: invalidating a valid request.                     *)
(***************************************************************************)
\* a request on the wire
Request(method, url, json) == [method |-> method, url |-> url, json |-> json]

\* the status of a conflict in the mappings under test
Conflict == 418

\* the answers of the API to a request that sets a resource up
SetupAnswers ==
    {Response(st, kind, None, "none", None) :
        st \in {201, Conflict, 500}, kind \in {"dict", "nonjson"}}

\* the answers of the API to the GET of ensure_conflict
ResourceAnswers ==
    {Response(200, "dict", Some(StrV(<<"7">>)), "none", None),
     Response(200, "list", None, "none", Some(<<StrV(<<"7">>)>>)),
     Response(200, "nonjson", None, "none", None),
     Response(404, "dict", None, "none", None)}

Invalidated(exception, data, sent) == [err |-> exception, data |-> data, sent |-> sent]

\* the message of a failing assert holds response.json()
assert_message(response) ==
    IF response.kind = "nonjson" THEN "JSONDecodeError" ELSE "AssertionError"

\* ensure_conflict: the set of [err, data, sent] one call can yield
ensure_conflict(w, url, method, dto, conflict_status_code) ==
    LET json_data == dto.data
        relations == dto.class.relations
        unique == {i \in DOMAIN relations :
                      relations[i].kind = "UniquePropertyValueConstraint"}
        post(post_url, post_json, data) ==
            UNION {
              IF request_data.err # "" THEN {Invalidated(request_data.err, data, <<>>)}
              ELSE {LET sent == <<Request("POST", post_url, post_json)>>
                    IN  IF ok(a.response)
                           \/ a.response.status_code = conflict_status_code
                        THEN Invalidated("", data, sent)
                        ELSE Invalidated(assert_message(a.response), data, sent)
                    : a \in authorized_request(post_url, "POST", SetupAnswers)}
              : request_data \in get_request_data(w, post_url, "POST")}
    IN
    IF unique # {}
    THEN LET relation == relations[CHOOSE i \in unique : \A j \in unique : i <= j]
             conflicting == Put(json_data, relation.property_name, relation.value)
         IN  IF method \in {"PATCH", "PUT"}
             THEN LET post_url == SubSeq(url, 1, Len(url) - 1)
                  IN  UNION {
                        IF request_data.err # ""
                        THEN {Invalidated(request_data.err, conflicting, <<>>)}
                        ELSE post(post_url,
                                  [key \in DOMAIN request_data.dto.data |->
                                      IF key \in DOMAIN conflicting
                                      THEN conflicting[key]
                                      ELSE request_data.dto.data[key]],
                                  conflicting)
                        : request_data \in get_request_data(w, post_url, "POST")}
             ELSE post(url, conflicting, conflicting)
    ELSE UNION {
           IF request_data.err # "" THEN {Invalidated(request_data.err, json_data, <<>>)}
           ELSE UNION {
             LET response == got.response
                 sent == <<Request("GET", url, EmptyDict)>>
                 updated == [key \in DOMAIN json_data |->
                                IF key = "id" /\ response.id # None
                                THEN response.id[1] ELSE json_data[key]]
             IN  IF ok(response) /\ response.kind = "nonjson"
                 THEN {Invalidated("JSONDecodeError", json_data, sent)}
                 ELSE IF ok(response) /\ response.kind = "dict"
                 THEN {Invalidated("", updated, sent)}
                 \* no resource to conflict with: create one instead
                 ELSE UNION {
                        IF post_data.err # ""
                        THEN {Invalidated(post_data.err, json_data, sent)}
                        ELSE {LET all == Append(sent, Request("POST", url, json_data))
                              IN  IF ok(a.response) THEN Invalidated("", json_data, all)
                                  ELSE Invalidated(assert_message(a.response),
                                                   json_data, all)
                              : a \in authorized_request(url, "POST", SetupAnswers)}
                        : post_data \in get_request_data(w, url, "POST")}
             : got \in authorized_request(url, "GET", ResourceAnswers)}
           : request_data \in get_request_data(w, url, "GET")}

\* ensure_in_use: the set of [err, data, sent] one call can yield (data: the
\* json of the POST)
ensure_in_use(w, url, resource_relation) ==
    LET parameterized_endpoint == get_parametrized_endpoint(w, url)
        post_endpoint == resource_relation.path
        property_name == resource_relation.property_name
    IN
    IF parameterized_endpoint = None THEN {Invalidated("ValueError", EmptyDict, <<>>)}
    ELSE
      LET last == parameterized_endpoint[1][Len(parameterized_endpoint[1])]
          resource_id == IF IsParam(last) THEN url[Len(url)] ELSE ""
      IN  UNION {
            IF request_data.err # ""
            THEN {Invalidated(request_data.err, EmptyDict, <<>>)}
            ELSE LET json_data == IF resource_id # ""
                                  THEN Put(request_data.dto.data, property_name,
                                           StrV(<<resource_id>>))
                                  ELSE request_data.dto.data
                 IN  UNION {
                       IF post_url.err # ""
                       THEN {Invalidated(post_url.err, json_data, <<>>)}
                       ELSE {LET sent == <<Request("POST", post_url.url, json_data)>>
                             IN  IF ok(a.response) THEN Invalidated("", json_data, sent)
                                 ELSE IF a.response.kind = "nonjson"
                                 THEN Invalidated("JSONDecodeError", json_data, sent)
                                 ELSE Invalidated("HTTPError", json_data, sent)
                             : a \in authorized_request(post_url.url, "POST",
                                                        SetupAnswers)}
                       : post_url \in get_valid_url(w, post_endpoint, "POST")}
            : request_data \in get_request_data(w, post_endpoint, "POST")}

\* the keyword arguments invalidate_json_data passes to get_invalidated_data
InvalidatedDataKeywords == {"schema", "status_code", "invalid_property_default_code"}

\* invalidate_json_data: the set of [err, data, sent] one call can yield
invalidate_json_data(w, data_relations, json_data, schema, url, method, dto, status_code) ==
    LET from_dto ==
            {Invalidated(r.err, IF r.err = "" THEN r.data ELSE json_data, <<>>) :
                r \in call_get_invalidated_data(dto, schema, status_code,
                                                InvalidatedDataKeywords)}
    IN
    IF data_relations = <<>>
    THEN (IF schema.keys = {}
          THEN {Invalidated("AssertionError", json_data, <<>>)}
          ELSE from_dto)
    ELSE UNION {
           IF resource_relation.kind = "UniquePropertyValueConstraint"
           THEN ensure_conflict(w, url, method, dto, status_code)
           ELSE IF resource_relation.kind = "IdReference"
           THEN {Invalidated(r.err, json_data, r.sent) :
                    r \in ensure_in_use(w, url, resource_relation)}
           ELSE from_dto
           : resource_relation \in Range(data_relations)}

\* OpenapiExecutors.__init__: invalid_property_default_response
invalid_property_default_response == 422

InvalidatedParameters(exception, params, headers) ==
    [err |-> exception, params |-> params, headers |-> headers]

\* invalidate_parameters: the set of [err, params, headers] one call can yield
invalidate_parameters(params, headers, relations, parameters, status_code) ==
    IF params = EmptyDict /\ headers = EmptyDict
    THEN {InvalidatedParameters("", params, headers)}
    ELSE IF parameters = <<>>
    THEN {InvalidatedParameters("", params, headers)}
    ELSE
      LET relations_for_status_code ==
              SelectIdx(relations,
                  {i \in DOMAIN relations :
                      /\ relations[i].kind = "PropertyValueConstraint"
                      /\ relations[i].error_code = status_code})
          named(name) == SelectIdx(parameters,
                             {i \in DOMAIN parameters : parameters[i].name = name})
          \* the parameter to invalidate: choice(...) and the unpacking
          chosen ==
              IF status_code = invalid_property_default_response
              THEN {[err |-> "", parameter_data |-> parameters[i]] :
                       i \in DOMAIN parameters}
              ELSE IF relations_for_status_code = <<>>
              THEN {[err |-> "IndexError", parameter_data |-> parameters[1]]}
              ELSE {IF Len(named(r.property_name)) # 1
                    THEN [err |-> "ValueError", parameter_data |-> parameters[1]]
                    ELSE [err |-> "", parameter_data |-> named(r.property_name)[1]]
                    : r \in Range(relations_for_status_code)}
          invalidate(parameter_data) ==
              LET parameter_to_invalidate == parameter_data.name
                  relations_for_parameter ==
                      SelectIdx(relations_for_status_code,
                          {i \in DOMAIN relations_for_status_code :
                              relations_for_status_code[i].property_name
                                  = parameter_to_invalidate})
                  values_from_constraint ==
                      IF relations_for_parameter # <<>>
                      THEN relations_for_parameter[1].values ELSE <<>>
                  valid_values ==
                      IF parameter_to_invalidate \in DOMAIN params
                      THEN {params[parameter_to_invalidate]}
                      ELSE IF parameter_to_invalidate \in DOMAIN headers
                      THEN {headers[parameter_to_invalidate]}
                      ELSE get_valid_value(parameter_data.schema, BuildDraws)
              IN  UNION {
                    IF IsRaised(valid_value)
                    THEN {InvalidatedParameters(valid_value.s[1], params, headers)}
                    ELSE {IF parameter_to_invalidate \in DOMAIN params
                          THEN InvalidatedParameters("",
                                   [params EXCEPT ![parameter_to_invalidate] =
                                       invalid_value], headers)
                          ELSE InvalidatedParameters("", params,
                                   Put(headers, parameter_to_invalidate,
                                       StrOf(invalid_value)))
                          : invalid_value \in
                              get_invalid_value(parameter_data.schema, valid_value,
                                                values_from_constraint)}
                    : valid_value \in valid_values}
      IN  UNION {IF c.err # "" THEN {InvalidatedParameters(c.err, params, headers)}
                 ELSE invalidate(c.parameter_data)
                 : c \in chosen}

\* get_invalidated_url: Some(url with the last path parameter replaced), or
\* None; the parts of the url and of the path are paired from the end
get_invalidated_url(w, valid_url) ==
    LET parameterized_endpoint == get_parametrized_endpoint(w, valid_url)
    IN  IF parameterized_endpoint = None THEN {[err |-> "ValueError", url |-> None]}
        ELSE LET spec_parts == parameterized_endpoint[1]
                 offset == Len(valid_url) - Len(spec_parts)
                 at == {i \in DOMAIN spec_parts :
                           i + offset \in DOMAIN valid_url /\ IsParam(spec_parts[i])}
             IN  IF at = {} THEN {[err |-> "", url |-> None]}
                 ELSE {[err |-> "",
                        url |-> Some([valid_url EXCEPT
                            ![(CHOOSE i \in at : \A j \in at : j <= i) + offset] = x])]
                       : x \in InvalidDraws}

\* RequestData.has_optional_properties / _params / _headers (openapi_libcore.py)
has_optional_properties(request_data) ==
    \E property \in DOMAIN request_data.dto.data :
        property \notin Range(request_data.dto_schema.required)
has_optional_params(request_data) ==
    \E i \in DOMAIN request_data.parameters :
        /\ request_data.parameters[i].in = "query"
        /\ ~request_data.parameters[i].required
        /\ request_data.parameters[i].name \in DOMAIN request_data.params
has_optional_headers(request_data) ==
    \E i \in DOMAIN request_data.parameters :
        /\ request_data.parameters[i].in = "header"
        /\ ~request_data.parameters[i].required
        /\ request_data.parameters[i].name \in DOMAIN request_data.headers

(***************************************************************************)
(* The documents and Dto mappings under test.                              *)
(***************************************************************************)
Collection == <<"", "r">>
Item == <<"", "r", "{id}">>
References == <<"", "ref">>

\* the body of a resource: `name` is required, `flag` is optional
ResourceSchema ==
    ObjectSchema(<<Prop("name", LeafSchema("string")),
                   Prop("flag", LeafSchema("boolean"))>>, <<"name">>)
ReferenceSchema == ObjectSchema(<<Prop("r_id", LeafSchema("string"))>>, <<"r_id">>)
\* an optional query parameter
Query == Param("q", "query", FALSE, LeafSchema("boolean"))

\* a resource with bounds on its properties
BoundedSchema ==
    ObjectSchema(<<Prop("name", [LeafSchema("string") EXCEPT !.maxLength = Some(4)]),
                   Prop("n", [LeafSchema("integer") EXCEPT !.minimum = Some(1),
                                                           !.maximum = Some(2)])>>,
                 <<"name">>)

\* the paths section: the collection with the given operations, the item with
\* or without a get operation, and the given schema of a resource
Paths(collection, item_get, resource_schema) ==
    <<[path |-> Collection,
       operations |-> [m \in collection |->
           IF m = "get" THEN Operation("list_r", <<Query>>, None)
           ELSE Operation("post_r", <<Query>>, JsonBody(resource_schema))]],
      [path |-> Item,
       operations |-> [m \in {"patch", "delete"} \cup (IF item_get THEN {"get"} ELSE {}) |->
           CASE m = "get" -> Operation("get_r", <<>>, None)
             [] m = "patch" -> Operation("patch_r", <<>>, JsonBody(resource_schema))
             [] OTHER -> Operation("delete_r", <<>>, None)]],
      [path |-> References,
       operations |-> [m \in {"post"} |->
           Operation("post_ref", <<>>, JsonBody(ReferenceSchema))]]>>

\* a mappings module of the user: relations for the conflict status on the
\* body and on the parameters of the POST, on the parameters of the list and on
\* the DELETE; a constrained value for the default invalid-property status
Mapped ==
    [k \in {<<Collection, "post">>, <<Collection, "get">>, <<Item, "delete">>} |->
        CASE k = <<Collection, "post">> ->
               DtoClass(<<UniquePropertyValueConstraint("name", StrV(<<"taken">>),
                                                        Conflict),
                          PropertyValueConstraint("flag", <<BoolV(TRUE)>>,
                                                  invalid_property_default_response)>>,
                        <<PropertyValueConstraint("q", <<BoolV(TRUE)>>, Conflict)>>)
          [] k = <<Collection, "get">> ->
               DtoClass(<<>>,
                        <<PropertyValueConstraint("q", <<BoolV(TRUE)>>, Conflict)>>)
          [] OTHER ->
               DtoClass(<<IdReference("r_id", References, Conflict)>>, <<>>)]
Unmapped == [k \in {} |-> DefaultDto]

World(paths, dto_mapping) == [paths |-> paths, dto_mapping |-> dto_mapping]
Worlds == {World(Paths({"get", "post"}, item_get, ResourceSchema), dto_mapping) :
              item_get \in BOOLEAN, dto_mapping \in {Mapped, Unmapped}}

\* the test cases the driver generates: an operation of the document and a
\* status code to provoke
TestCase(endpoint, method, status_code) ==
    [endpoint |-> endpoint, method |-> method, status_code |-> status_code]
Statuses == {200, 201, 204, 404, Conflict, invalid_property_default_response}
TestCases(w) ==
    UNION {{TestCase(w.paths[i].path, method, status_code) :
               method \in {m \in {"GET", "POST", "PATCH", "DELETE"} :
                              lower(m) \in DOMAIN w.paths[i].operations},
               status_code \in Statuses}
           : i \in {1, 2}}

\* the answers of the API to the request under test
MainAnswers ==
    {Response(st, kind, None, "none", None) :
        st \in Statuses \cup {500}, kind \in {"dict", "nonjson"}}
    \cup {Response(500, "list", None, "none", None)}
\* the answers to the GET before a PATCH
OriginalAnswers ==
    {Response(200, "dict", Some(StrV(<<"7">>)), "none", None),
     Response(200, "nonjson", None, "none", None),
     Response(404, "dict", None, "none", None)}
\* the answers to the GET after a DELETE
AfterDeleteAnswers ==
    {Response(st, "dict", None, "none", None) : st \in {200, 404, 405, 500}}

(***************************************************************************)
(* The state of one test case (test_endpoint) and of one keyword call.     *)
(***************************************************************************)
VARIABLES
    world,          \* the OpenAPI document and the Dto mapping
    call,           \* the keyword call: the test case, or a keyword's arguments
    result,         \* the result of a keyword called on its own
    pc,             \* where test_endpoint is
    url,            \* the valid url
    request_data,   \* the RequestData as built
    json_data,      \* the body to send
    params,         \* the query parameters to send
    headers,        \* the headers to send
    original_data,  \* the resource before a PATCH
    ran,            \* the invalidation keywords run, in order
    log,            \* what happened, in order
    setup,          \* the requests the invalidation sent
    sent,           \* the requests perform_validated_request sent
    response,       \* the response to the request under test
    get_response,   \* the response to the GET after a DELETE
    outcome         \* "" while running, then "PASS" or the exception

request == <<url, request_data, json_data, params, headers, original_data>>
history == <<ran, log, setup, sent, response, get_response, outcome>>
vars == <<world, call, result, pc, request, history>>

NotCalled == [done |-> FALSE]
NotBuilt == NoRequestData("")

\* the state before the keyword runs
Start ==
    /\ result = NotCalled
    /\ url = <<>> /\ request_data = NotBuilt /\ json_data = EmptyDict
    /\ params = EmptyDict /\ headers = EmptyDict /\ original_data = None
    /\ ran = <<>> /\ log = <<>> /\ setup = <<>> /\ sent = <<>>
    /\ response = None /\ get_response = None /\ outcome = ""

Init ==
    /\ world \in Worlds
    /\ call \in TestCases(world)
    /\ pc = "test_endpoint"
    /\ Start

\* an exception ends the test case
Raise(exception) == pc' = "done" /\ outcome' = exception

\* test_endpoint, lines 163-182: the valid url, the valid request data and,
\* for PATCH, the resource as it is
Build ==
    /\ pc = "test_endpoint"
    /\ \E valid_url \in get_valid_url(world, call.endpoint, call.method),
          built \in get_request_data(world, call.endpoint, call.method),
          got \in get_request_data(world, call.endpoint, "GET"),
          a \in OriginalAnswers :
          LET failed == IF valid_url.err # "" THEN valid_url.err
                        ELSE IF built.err # "" THEN built.err
                        ELSE IF call.method # "PATCH" THEN ""
                        ELSE IF got.err # "" THEN got.err
                        ELSE IF ok(a) /\ a.kind = "nonjson" THEN "JSONDecodeError"
                        ELSE ""
              patched == call.method = "PATCH" /\ valid_url.err = ""
                         /\ built.err = "" /\ got.err = ""
          IN  /\ log' = IF patched THEN Append(log, "GET") ELSE log
              /\ IF failed # ""
                 THEN /\ Raise(failed)
                      /\ UNCHANGED request
                 ELSE /\ url' = valid_url.url
                      /\ request_data' = built
                      /\ json_data' = built.dto.data
                      /\ params' = built.params
                      /\ headers' = built.headers
                      /\ original_data' = IF patched /\ ok(a) THEN Some(a) ELSE None
                      /\ pc' = IF call.status_code >= 400 THEN "invalidate"
                               ELSE "perform_validated_request"
                      /\ outcome' = ""
    /\ UNCHANGED <<world, call, result, ran, setup, sent, response, get_response>>

\* test_endpoint, lines 212-216: the keywords with a relation to work from
invalidation_keywords(data_relations, parameter_relations) ==
    (IF data_relations # <<>> THEN <<"invalidate_json_data">> ELSE <<>>)
    \o (IF parameter_relations # <<>> THEN <<"invalidate_parameters">> ELSE <<>>)

\* keywords_to_run with every eligible keyword run instead of one of them
keywords_to_run_all(eligible, status_code) ==
    IF eligible # <<>> THEN {eligible}
    ELSE IF status_code = invalid_property_default_response
    THEN {<<"invalidate_json_data", "invalidate_parameters">>}
    ELSE {<<>>}

\* test_endpoint, lines 217-236: the keywords one run can run, in order
keywords_to_run(eligible, status_code) ==
    IF eligible # <<>> THEN {<<keyword>> : keyword \in Range(eligible)}
    ELSE IF status_code = invalid_property_default_response
    THEN {<<"invalidate_json_data", "invalidate_parameters">>}
    ELSE {<<>>}

\* test_endpoint, lines 183-236: make sure the error status will occur
Invalidate ==
    /\ pc = "invalidate"
    /\ LET dto == request_data.dto
           data_relations ==
               get_relations_for_error_code(dto.class.relations, call.status_code)
           parameter_relations ==
               get_relations_for_error_code(dto.class.parameter_relations,
                                            call.status_code)
           eligible == invalidation_keywords(data_relations, parameter_relations)
           body == invalidate_json_data(world, data_relations, json_data,
                                        request_data.dto_schema, url, call.method,
                                        dto, call.status_code)
           parameters == invalidate_parameters(params, headers, parameter_relations,
                                               request_data.parameters,
                                               call.status_code)
           unchanged_body == Invalidated("", json_data, <<>>)
           unchanged_parameters == InvalidatedParameters("", params, headers)
       IN  \E keywords \in keywords_to_run(eligible, call.status_code) :
           \E b \in IF "invalidate_json_data" \in Range(keywords)
                    THEN body ELSE {unchanged_body} :
           \E p \in IF "invalidate_parameters" \in Range(keywords) /\ b.err = ""
                    THEN parameters ELSE {unchanged_parameters} :
              LET exception == IF b.err # "" THEN b.err ELSE p.err
              IN  /\ ran' = ran \o (IF b.err # "" THEN <<"invalidate_json_data">>
                                    ELSE keywords)
                  /\ json_data' = b.data
                  /\ setup' = setup \o b.sent
                  /\ params' = p.params
                  /\ headers' = p.headers
                  /\ log' = IF eligible = <<>> /\ keywords = <<>>
                            THEN Append(log, "logger.error: No Dto mapping found")
                            ELSE log
                  /\ pc' = IF exception = "" THEN "perform_validated_request"
                           ELSE "done"
                  /\ outcome' = exception
    /\ UNCHANGED <<world, call, result, url, request_data, original_data, sent,
                   response, get_response>>

\* a request of perform_validated_request as it went out
Sent(method, params_sent, headers_sent, json) ==
    [method |-> method, url |-> url, params |-> params_sent,
     headers |-> headers_sent, json |-> json]

\* perform_validated_request, lines 260-281: send the request and compare the
\* status of the response with the expected one
PerformValidatedRequest ==
    /\ pc = "perform_validated_request"
    /\ \E a \in authorized_request(url, call.method, MainAnswers) :
          /\ sent' = Append(sent, Sent(call.method, params, headers, json_data))
          /\ response' = Some(a.response)
          /\ IF a.response.status_code # call.status_code
             THEN Raise(IF ~ok(a.response) /\ a.response.kind = "nonjson"
                        THEN "JSONDecodeError"
                        ELSE IF ~ok(a.response) /\ a.response.kind = "list"
                        THEN "AttributeError"
                        ELSE "AssertionError")
             ELSE pc' = "validate_response" /\ outcome' = ""
    /\ UNCHANGED <<world, call, result, request, ran, log, setup, get_response>>

\* what validate_response can make of a response: it raises when the response
\* does not conform to the document
validate_response(a) ==
    IF a.status_code = 204
    THEN {IF a.kind = "nonjson" THEN "AssertionError" ELSE ""}
    ELSE {"", "AssertionError"}

\* perform_validated_request, line 282
ValidateResponse ==
    /\ pc = "validate_response"
    /\ log' = Append(log, "validate_response")
    /\ \E verdict \in validate_response(response[1]) :
          IF verdict # "" THEN Raise(verdict)
          ELSE IF call.method = "DELETE"
          THEN pc' = "get_after_delete" /\ outcome' = ""
          ELSE Raise("PASS")
    /\ UNCHANGED <<world, call, result, request, ran, setup, sent, response,
                   get_response>>

\* deletion_verdict with every answer but 404 and 405 taken for a failure
deletion_verdict_strict(delete_response, got) ==
    IF ok(delete_response)
    THEN (IF got.status_code \notin {404, 405}
          THEN [raised |-> "AssertionError", logged |-> <<>>]
          ELSE [raised |-> "", logged |-> <<>>])
    ELSE (IF ~ok(got) THEN [raised |-> "AssertionError", logged |-> <<>>]
          ELSE [raised |-> "", logged |-> <<>>])

\* deletion_verdict with the GET after a refused DELETE left unchecked
deletion_verdict_unchecked(delete_response, got) ==
    IF ok(delete_response)
    THEN (IF ok(got) THEN [raised |-> "AssertionError", logged |-> <<>>]
          ELSE [raised |-> "",
                logged |-> IF got.status_code \notin {404, 405}
                           THEN <<"logger.warning: Unexpected response">>
                           ELSE <<>>])
    ELSE [raised |-> "", logged |-> <<>>]

\* perform_validated_request, lines 289-307: the verdict on a DELETE, given
\* the response to it and the response to the GET that followed
deletion_verdict(delete_response, got) ==
    IF ok(delete_response)
    THEN (IF ok(got) THEN [raised |-> "AssertionError", logged |-> <<>>]
          ELSE [raised |-> "",
                logged |-> IF got.status_code \notin {404, 405}
                           THEN <<"logger.warning: Unexpected response">>
                           ELSE <<>>])
    ELSE (IF ~ok(got) THEN [raised |-> "AssertionError", logged |-> <<>>]
          ELSE [raised |-> "", logged |-> <<>>])

\* perform_validated_request, lines 283-307: after a DELETE, GET the resource
VerifyDeletion ==
    /\ pc = "get_after_delete"
    /\ \E got \in get_request_data(world, call.endpoint, "GET"),
          g \in authorized_request(url, "GET", AfterDeleteAnswers) :
          IF got.err # ""
          THEN Raise(got.err) /\ UNCHANGED <<sent, log, get_response>>
          ELSE LET verdict == deletion_verdict(response[1], g.response)
               IN  /\ sent' = Append(sent, Sent("GET", got.params, got.headers,
                                                EmptyDict))
                   /\ get_response' = Some(g.response)
                   /\ log' = log \o verdict.logged
                   /\ Raise(IF verdict.raised = "" THEN "PASS" ELSE verdict.raised)
    /\ UNCHANGED <<world, call, result, request, ran, setup, response>>

Next ==
    \/ Build
    \/ Invalidate
    \/ PerformValidatedRequest
    \/ ValidateResponse
    \/ VerifyDeletion

Spec == Init /\ [][Next]_vars

(***************************************************************************)
(* Properties of test_endpoint and perform_validated_request.              *)
(***************************************************************************)
\* the request data was built and the invalidation step is over
Invalidation_over ==
    /\ request_data # NotBuilt
    /\ pc \notin {"test_endpoint", "invalidate"}
\* the relations of the Dto for the status code of the test case
Data_relations ==
    get_relations_for_error_code(request_data.dto.class.relations, call.status_code)
Parameter_relations ==
    get_relations_for_error_code(request_data.dto.class.parameter_relations,
                                 call.status_code)
\* the requests perform_validated_request sent with the method under test
Sends == SelectIdx(sent, {i \in DOMAIN sent : i = 1 \/ sent[i].method # "GET"})

\* C1: when the status is an error, no relation of the Dto is for it and it is
\* not the default invalid-property status, the test case ends with an
\* AssertionError and no request is handed to perform_validated_request.
C1_no_mapping_fails_fast ==
    (/\ Invalidation_over
     /\ call.status_code >= 400
     /\ call.status_code # invalid_property_default_response
     /\ Data_relations = <<>> /\ Parameter_relations = <<>>)
    => (/\ pc = "done"
        /\ outcome = "AssertionError"
        /\ sent = <<>>)

\* C2: a response whose status is not the expected one ends the test case
\* with an AssertionError, before validate_response and before the GET after a
\* DELETE; validate_response only runs on a response with the expected status.
C2_mismatch_is_assertion_error ==
    /\ (response # None /\ response[1].status_code # call.status_code)
       => (/\ pc = "done"
           /\ outcome = "AssertionError"
           /\ "validate_response" \notin Range(log)
           /\ Len(sent) = 1)
    /\ "validate_response" \in Range(log)
       => (response # None /\ response[1].status_code = call.status_code)

\* C3: with a relation for the error status, exactly one invalidation keyword
\* runs, one whose side has a relation for the status, and the other side of
\* the request stays, and is sent, as it was built.
C3_one_side_invalidated ==
    (/\ Invalidation_over
     /\ call.status_code >= 400
     /\ (Data_relations # <<>> \/ Parameter_relations # <<>>))
    => (/\ Len(ran) = 1
        /\ ran[1] = "invalidate_json_data"
           => (/\ Data_relations # <<>>
               /\ params = request_data.params
               /\ headers = request_data.headers
               /\ \A i \in DOMAIN Sends :
                     /\ Sends[i].params = request_data.params
                     /\ Sends[i].headers = request_data.headers)
        /\ ran[1] = "invalidate_parameters"
           => (/\ Parameter_relations # <<>>
               /\ json_data = request_data.dto.data
               /\ \A i \in DOMAIN Sends : Sends[i].json = request_data.dto.data))

\* C3 happens: both sides have a relation for the status, the body keyword ran
\* and the request went out
C3_witness ==
    /\ Invalidation_over
    /\ Data_relations # <<>> /\ Parameter_relations # <<>>
    /\ ran = <<"invalidate_json_data">>
    /\ json_data # request_data.dto.data
    /\ sent # <<>>

\* C4: with the default invalid-property status and no relation for it, an
\* operation with parameters and no request body has a parameter invalidated
\* and its request handed to perform_validated_request.
C4_default_status_reaches_request ==
    (/\ Invalidation_over
     /\ call.status_code = invalid_property_default_response
     /\ Data_relations = <<>> /\ Parameter_relations = <<>>
     /\ request_data.parameters # <<>>
     /\ request_data.dto_schema = EmptySchema)
    => (/\ "invalidate_parameters" \in Range(ran)
        /\ (pc # "done" \/ sent # <<>>))

\* C5: a test case for a status below 300 that passes has sent its request
\* twice when the request as built had an optional property, query parameter
\* or header, and once when it had none.
C5_optional_replay ==
    (pc = "done" /\ outcome = "PASS" /\ call.status_code < 300)
    => Len(Sends) = (IF \/ has_optional_properties(request_data)
                        \/ has_optional_params(request_data)
                        \/ has_optional_headers(request_data)
                     THEN 2 ELSE 1)

\* the test case was a DELETE answered with the expected status, then the GET
Deletion_verified ==
    /\ call.method = "DELETE"
    /\ pc = "done"
    /\ response # None /\ response[1].status_code = call.status_code
    /\ get_response # None

C7_undeleted_resource_is_retrievable ==
    /\ (call.method = "DELETE" /\ outcome = "PASS" /\ ~ok(response[1]))
       => (get_response # None /\ ok(get_response[1]))
    /\ (Deletion_verified /\ ~ok(response[1]))
       => (/\ sent[2].method = "GET" /\ sent[2].url = sent[1].url
           /\ outcome = IF ok(get_response[1]) THEN "PASS" ELSE "AssertionError")

\* C7 happens: the DELETE was refused as expected and the resource is gone
C7_witness ==
    /\ Deletion_verified /\ ~ok(response[1])
    /\ ~ok(get_response[1])
    /\ outcome = "AssertionError"

(***************************************************************************)
(* get_valid_id_for_endpoint called on its own.                            *)
(***************************************************************************)
\* documents whose collection has any of the get and post operations
ValidIdWorlds ==
    {World(Paths(collection, item_get, ResourceSchema), dto_mapping) :
        collection \in SUBSET {"get", "post"}, item_get \in BOOLEAN,
        dto_mapping \in {Mapped, Unmapped}}

InitValidId ==
    /\ world \in ValidIdWorlds
    /\ call \in [endpoint : {Collection, Item, References},
                 method : {"GET", "POST", "DELETE"}]
    /\ pc = "get_valid_id_for_endpoint"
    /\ Start

GetValidIdForEndpoint ==
    /\ pc = "get_valid_id_for_endpoint"
    /\ \E r \in get_valid_id_for_endpoint(world, call.endpoint, call.method) :
          result' = [done |-> TRUE, err |-> r.err, id |-> r.id, sent |-> r.sent]
    /\ pc' = "done"
    /\ UNCHANGED <<world, call, request, history>>

NextValidId == GetValidIdForEndpoint

SpecValidId == InitValidId /\ [][NextValidId]_vars

\* C8: for an endpoint whose path has a get but no post operation, and whose
\* url resolves, get_valid_id_for_endpoint sends a GET for an existing id
\* and does not fail with the NotImplementedError of the missing operation.
C8_get_when_post_is_not_supported ==
    (/\ result.done
     /\ get_parametrized_endpoint(world, call.endpoint) # None
     /\ "post" \notin DOMAIN Operations(world, call.endpoint)
     /\ "get" \in DOMAIN Operations(world, call.endpoint)
     /\ \A valid_url \in get_valid_url(world, call.endpoint, call.method) :
           valid_url.err = "")
    => (/\ result.sent = <<"GET">>
        /\ result.err # "NotImplementedError")

(***************************************************************************)
(* get_dto_data called on its own.                                         *)
(***************************************************************************)
\* a body with a nested object
OwnedSchema ==
    ObjectSchema(<<Prop("r_id", LeafSchema("string")),
                   Prop("owner", [LeafSchema("object") EXCEPT !.properties =
                                     <<Prop("r_id", LeafSchema("string"))>>])>>,
                 <<"r_id">>)

\* the relations a Dto can declare on the property r_id
DependencyRelations ==
    {<<>>,
     <<IdDependency("r_id", Collection, "", 451)>>,
     <<IdDependency("r_id", References, "put_ref", 451),
       IdDependency("r_id", Collection, "post_ref", 451)>>,
     <<IdDependency("r_id", Collection, "get_ref", 451),
       IdDependency("r_id", References, "put_ref", 451)>>,
     <<PropertyValueConstraint("r_id", <<StrV(<<"fixed">>)>>, 422),
       IdDependency("r_id", Collection, "", 451)>>,
     <<PropertyValueConstraint("r_id", <<>>, 422),
       IdDependency("r_id", Collection, "", 451)>>}

InitDto ==
    /\ world \in ValidIdWorlds
    /\ call \in [schema : {ReferenceSchema, OwnedSchema},
                 dto : {DtoClass(relations, <<>>) : relations \in DependencyRelations},
                 operation_id : {"post_ref"}]
    /\ pc = "get_dto_data"
    /\ Start

GetDtoData ==
    /\ pc = "get_dto_data"
    /\ \E r \in get_dto_data(world, call.schema, call.dto, call.operation_id) :
          result' = [done |-> TRUE, err |-> r.err, data |-> r.data, calls |-> r.calls]
    /\ pc' = "done"
    /\ UNCHANGED <<world, call, request, history>>

NextDto == GetDtoData

SpecDto == InitDto /\ [][NextDto]_vars

\* the IdDependency relations of the Dto of the call on a property
Dependencies(property_name) ==
    {i \in DOMAIN call.dto.relations :
        /\ call.dto.relations[i].kind = "IdDependency"
        /\ call.dto.relations[i].property_name = property_name}

Followed(property_name) ==
    IF Cardinality(Dependencies(property_name)) = 1 THEN Dependencies(property_name)
    ELSE {i \in Dependencies(property_name) :
             call.dto.relations[i].operation_id = call.operation_id}

BodyRelations ==
    {<<PropertyValueConstraint("flag", <<BoolV(TRUE)>>,
                               invalid_property_default_response)>>,
     <<PropertyValueConstraint("name", <<StrV(<<"x">>)>>, Conflict)>>,
     <<UniquePropertyValueConstraint("name", StrV(<<"taken">>), Conflict)>>,
     <<IdReference("r_id", References, Conflict)>>,
     <<PropertyValueConstraint("name", <<StrV(<<"x">>)>>,
                               invalid_property_default_response),
       UniquePropertyValueConstraint("name", StrV(<<"taken">>), Conflict)>>,
     \* two unique properties, each with a status of its own
     <<UniquePropertyValueConstraint("flag", BoolV(TRUE),
                                     invalid_property_default_response),
       UniquePropertyValueConstraint("name", StrV(<<"taken">>), Conflict)>>}

InvalidateWorlds ==
    {World(Paths({"get", "post"}, TRUE, resource_schema),
           [k \in {<<Collection, "post">>, <<Item, "patch">>} |->
               DtoClass(relations, <<>>)]) :
        resource_schema \in {ResourceSchema, BoundedSchema},
        relations \in BodyRelations}

\* the request data and the url are those of a test case
InitInvalidate ==
    /\ world \in InvalidateWorlds
    /\ call \in [endpoint : {Collection, Item}, method : {"POST", "PATCH"},
                 status_code : {Conflict, invalid_property_default_response},
                 keyword : {"invalidate_json_data", "get_invalidated_data"}]
    /\ \E i \in DOMAIN world.paths :
          /\ world.paths[i].path = call.endpoint
          /\ lower(call.method) \in DOMAIN world.paths[i].operations
    /\ pc = call.keyword
    /\ result = NotCalled
    /\ \E valid_url \in get_valid_url(world, call.endpoint, call.method),
          built \in get_request_data(world, call.endpoint, call.method) :
          /\ valid_url.err = "" /\ built.err = ""
          /\ get_relations_for_error_code(built.dto.class.relations,
                                          call.status_code) # <<>>
          /\ url = valid_url.url
          /\ request_data = built
          /\ json_data = built.dto.data
          /\ params = built.params
          /\ headers = built.headers
    /\ original_data = None
    /\ ran = <<>> /\ log = <<>> /\ setup = <<>> /\ sent = <<>>
    /\ response = None /\ get_response = None /\ outcome = ""

InvalidateJsonData ==
    /\ pc = "invalidate_json_data"
    /\ \E r \in invalidate_json_data(world,
                    get_relations_for_error_code(request_data.dto.class.relations,
                                                 call.status_code),
                    json_data, request_data.dto_schema, url, call.method,
                    request_data.dto, call.status_code) :
          /\ result' = [done |-> TRUE, err |-> r.err, data |-> r.data]
          /\ setup' = r.sent
    /\ pc' = "done"
    /\ UNCHANGED <<world, call, request, ran, log, sent, response, get_response,
                   outcome>>

GetInvalidatedData ==
    /\ pc = "get_invalidated_data"
    /\ \E r \in get_invalidated_data(request_data.dto, request_data.dto_schema,
                                     call.status_code) :
          result' = [done |-> TRUE, err |-> r.err, data |-> r.data]
    /\ pc' = "done"
    /\ UNCHANGED <<world, call, request, history>>

NextInvalidate ==
    \/ InvalidateJsonData
    \/ GetInvalidatedData

SpecInvalidate == InitInvalidate /\ [][NextInvalidate]_vars

\* the properties in which the body returned differs from the valid body
Changed ==
    {k \in DOMAIN result.data \cup DOMAIN json_data :
        \/ k \notin DOMAIN result.data
        \/ k \notin DOMAIN json_data
        \/ result.data[k] # json_data[k]}

\* C10: the body that body invalidation returns for a status with a relation
\* differs from the valid body in exactly one property, and a relation for
\* that status is on that property (for the default invalid-property status:
\* any property).
C10_one_governed_property_changed ==
    (result.done /\ result.err = "")
    => (/\ Cardinality(Changed) = 1
        /\ \A k \in Changed :
              \/ call.status_code = invalid_property_default_response
              \/ \E i \in DOMAIN request_data.dto.class.relations :
                    /\ request_data.dto.class.relations[i].property_name = k
                    /\ request_data.dto.class.relations[i].error_code
                          = call.status_code)

\* the relations of the Dto for the status to provoke: choice(data_relations)
\* picks one of them
RelationsForStatus ==
    get_relations_for_error_code(request_data.dto.class.relations, call.status_code)

\* the url the colliding resource is posted to
CollisionUrl ==
    IF call.method \in {"PATCH", "PUT"} THEN SubSeq(url, 1, Len(url) - 1) ELSE url

\* C28: when invalidate_json_data returned and the relation chosen for the
\* status to provoke is a UniquePropertyValueConstraint, the body returned has
\* the property of that relation set to the conflicting value of that
\* relation, and a POST whose body carries that value was sent to the url of
\* the collection (for PATCH and PUT: the parent of the url, otherwise the url).
C28_conflict_is_set_up_for_the_chosen_relation ==
    (/\ call.keyword = "invalidate_json_data"
     /\ result.done /\ result.err = ""
     /\ \A i \in DOMAIN RelationsForStatus :
           RelationsForStatus[i].kind = "UniquePropertyValueConstraint")
    => \A i \in DOMAIN RelationsForStatus :
          LET relation == RelationsForStatus[i]
          IN  /\ relation.property_name \in DOMAIN result.data
              /\ result.data[relation.property_name] = relation.value
              /\ \E j \in DOMAIN setup :
                    /\ setup[j].method = "POST"
                    /\ setup[j].url = CollisionUrl
                    /\ relation.property_name \in DOMAIN setup[j].json
                    /\ setup[j].json[relation.property_name] = relation.value

(***************************************************************************)
(* get_request_data and invalidate_parameters on parameters that a         *)
(* PropertyValueConstraint tells to IGNORE.                                *)
(***************************************************************************)
\* a required header parameter
Header == Param("h", "header", TRUE, LeafSchema("string"))

\* a document with one operation: a POST with the given parameters and a body
IgnoringPaths(parameters) ==
    <<[path |-> Collection,
       operations |-> [m \in {"post"} |->
           Operation("post_r", parameters, JsonBody(ResourceSchema))]]>>

\* the mappings of the user: constraints with IGNORE among their values
IgnoringWorlds ==
    {World(IgnoringPaths(parameters),
           [k \in {<<Collection, "post">>} |->
               DtoClass(relations, parameter_relations)]) :
        parameters \in {<<Query, Header>>, <<Header, Query>>, <<Query>>},
        relations \in
            {<<>>,
             <<PropertyValueConstraint("flag", <<IGNORE>>,
                                       invalid_property_default_response)>>,
             <<PropertyValueConstraint("flag", <<IGNORE, BoolV(TRUE)>>, Conflict)>>},
        parameter_relations \in
            {<<PropertyValueConstraint("q", <<IGNORE>>, Conflict)>>,
             <<PropertyValueConstraint("q", <<IGNORE, BoolV(TRUE)>>, Conflict)>>,
             <<PropertyValueConstraint("h", <<IGNORE>>, Conflict)>>,
             <<PropertyValueConstraint("q", <<BoolV(TRUE)>>, Conflict)>>}}

InitIgnore ==
    /\ world \in IgnoringWorlds
    /\ call \in [endpoint : {Collection}, method : {"POST"},
                 status_code : {Conflict, invalid_property_default_response}]
    /\ pc = "get_request_data"
    /\ Start

\* get_request_data, lines 406-474, and the unpacking of test_endpoint
GetRequestData ==
    /\ pc = "get_request_data"
    /\ \E built \in get_request_data(world, call.endpoint, call.method) :
          /\ request_data' = built
          /\ json_data' = built.dto.data
          /\ params' = built.params
          /\ headers' = built.headers
          /\ pc' = IF built.err = "" THEN "invalidate_parameters" ELSE "done"
          /\ outcome' = built.err
    /\ UNCHANGED <<world, call, result, url, original_data, ran, log, setup, sent,
                   response, get_response>>

\* invalidate_parameters, lines 649-704, on the parameters as built
InvalidateParameters ==
    /\ pc = "invalidate_parameters"
    /\ \E r \in invalidate_parameters(params, headers,
                    get_relations_for_error_code(
                        request_data.dto.class.parameter_relations, call.status_code),
                    request_data.parameters, call.status_code) :
          result' = [done |-> TRUE, err |-> r.err, params |-> r.params,
                     headers |-> r.headers]
    /\ pc' = "done"
    /\ UNCHANGED <<world, call, request, history>>

NextIgnore ==
    \/ GetRequestData
    \/ InvalidateParameters

SpecIgnore == InitIgnore /\ [][NextIgnore]_vars

\* the properties that a PropertyValueConstraint with IGNORE among its values names
Ignored(relations) ==
    {relations[i].property_name : i \in
        {j \in DOMAIN relations :
            /\ relations[j].kind = "PropertyValueConstraint"
            /\ IGNORE \in Range(relations[j].values)}}

\* C11: in every valid request that get_request_data built, a property or
\* parameter whose PropertyValueConstraint has IGNORE among its values is no
\* key of the body, of params or of headers, and IGNORE is no value of them.
C11_ignored_is_absent ==
    (pc # "get_request_data" /\ request_data.err = "")
    => (/\ \A k \in Ignored(request_data.dto.class.relations) :
              k \notin DOMAIN request_data.dto.data
        /\ \A k \in Ignored(request_data.dto.class.parameter_relations) :
              k \notin DOMAIN request_data.params \cup DOMAIN request_data.headers
        /\ \A k \in DOMAIN request_data.dto.data :
              request_data.dto.data[k] # IGNORE
        /\ \A k \in DOMAIN request_data.params :
              request_data.params[k] \notin {IGNORE, StrOf(IGNORE)}
        /\ \A k \in DOMAIN request_data.headers :
              request_data.headers[k] \notin {IGNORE, StrOf(IGNORE)})

\* C12: when every parameter that invalidate_parameters can select for the
\* status code has a PropertyValueConstraint with IGNORE among its values, the
\* params and headers it returns are the ones passed in.
C12_ignored_parameter_untouched ==
    (/\ result.done /\ result.err = ""
     /\ call.status_code # invalid_property_default_response
     /\ \A r \in Range(get_relations_for_error_code(
                     request_data.dto.class.parameter_relations, call.status_code)) :
           r.kind = "PropertyValueConstraint" /\ IGNORE \in Range(r.values))
    => (/\ result.params = params
        /\ result.headers = headers)

\* C27: invalidate_parameters changes at most one entry of params and
\* headers together, the one of the parameter it invalidated: a parameter held
\* in params is overwritten there, a header is written as a string into
\* headers, and no query parameter is ever a key of headers; without params
\* and headers, or without parameters, nothing is changed.
C27_one_parameter_in_its_collection ==
    (result.done /\ result.err = "")
    => LET parameters == request_data.parameters
           query == {parameters[i].name : i \in
                        {j \in DOMAIN parameters : parameters[j]["in"] = "query"}}
           changed(before, after) ==
               {k \in DOMAIN before \cup DOMAIN after :
                   \/ k \notin DOMAIN before \/ k \notin DOMAIN after
                   \/ before[k] # after[k]}
       IN  /\ DOMAIN result.headers \cap query = {}
           /\ Cardinality(changed(params, result.params)
                          \cup changed(headers, result.headers)) <= 1
           /\ DOMAIN result.params = DOMAIN params
           /\ \A k \in changed(headers, result.headers) :
                 result.headers[k].t = "string"
           /\ ((params = EmptyDict /\ headers = EmptyDict) \/ parameters = <<>>)
              => (result.params = params /\ result.headers = headers)

(***************************************************************************)
(* resolve_schema on the document as the interpreter holds it.  A schema   *)
(* is a dict; its `properties` dict and its `required` list are objects of *)
(* their own, which dict.copy() shares between the copy and the original.  *)
(* `objects` maps the reference of each such object to what it holds now.  *)
(***************************************************************************)
NoKey == "no key"
\* a schema of the document: the references its keys hold and its allOf parts
Fragment(title, properties, required, allOf) ==
    [title |-> title, properties |-> properties, required |-> required,
     allOf |-> allOf]
Resolved(objects, schema) == [objects |-> objects, schema |-> schema]

\* resolve_schema, lines 800-801, with the allOf key left in the copy
copy_with_allOf(schema) == schema

\* resolve_schema, lines 800-801: schema.copy() is a new dict on the same
\* values, from which "allOf" is popped
copy_without_allOf(schema) == [schema EXCEPT !.allOf = <<>>]

\* (the mutant: the value of the later part wins)
later_value(first_value, second_value) ==
    IF second_value # NoKey THEN second_value ELSE first_value
\* _merge_schemas, lines 819-825: a key of first that holds no dict and no
\* list is not updated; a key that first lacks is added
kept_value(first_value, second_value) ==
    IF first_value # NoKey THEN first_value ELSE second_value

\* _merge_schemas, lines 808-826: first.copy() shares the values of first, so
\* update() and extend() change the objects that first refers to
merge_schema_objects(objects, first, second) ==
    LET updated ==
            IF second.properties # NoKey /\ first.properties # NoKey
            THEN [objects EXCEPT ![first.properties] =
                     UpdateProperties(@, objects[second.properties])]
            ELSE objects
        extended ==
            IF second.required # NoKey /\ first.required # NoKey
            THEN [updated EXCEPT ![first.required] = @ \o updated[second.required]]
            ELSE updated
        merged_schema ==
            [title |-> kept_value(first.title, second.title),
             properties |-> IF first.properties # NoKey THEN first.properties
                            ELSE second.properties,
             required |-> IF first.required # NoKey THEN first.required
                          ELSE second.required,
             allOf |-> IF first.allOf # <<>> THEN first.allOf ELSE second.allOf]
    IN  Resolved(extended, merged_schema)

RECURSIVE resolve_schema_object(_, _)
RECURSIVE resolve_part_objects(_, _, _)
\* resolve_schema, lines 798-805: the schema it returns and the objects after
resolve_schema_object(objects, schema) ==
    resolve_part_objects(objects, copy_without_allOf(schema), schema.allOf)

\* the loop of lines 802-804 over the parts that are left
resolve_part_objects(objects, resolved_schema, schema_parts) ==
    IF schema_parts = <<>> THEN Resolved(objects, resolved_schema)
    ELSE LET resolved_part == resolve_schema_object(objects, Head(schema_parts))
             merged == merge_schema_objects(resolved_part.objects, resolved_schema,
                                            resolved_part.schema)
         IN  resolve_part_objects(merged.objects, merged.schema, Tail(schema_parts))

\* a schema as it reads: every reference replaced by what the object holds
RECURSIVE Value(_, _)
Value(objects, schema) ==
    [title |-> schema.title,
     properties |-> IF schema.properties = NoKey THEN None
                    ELSE Some(objects[schema.properties]),
     required |-> IF schema.required = NoKey THEN None
                  ELSE Some(objects[schema.required]),
     allOf |-> [i \in DOMAIN schema.allOf |-> Value(objects, schema.allOf[i])]]

\* the dicts and lists of the schemas of the document, as loaded
Objects ==
    [ref \in {"base.properties", "base.required", "A.properties", "A.required",
              "B.properties", "B.required"} |->
        CASE ref = "base.properties" -> <<Prop("id", LeafSchema("string"))>>
          [] ref = "base.required" -> <<"id">>
          [] ref = "A.properties" -> <<Prop("name", LeafSchema("string")),
                                       Prop("id", LeafSchema("integer"))>>
          [] ref = "A.required" -> <<"name">>
          [] ref = "B.properties" -> <<Prop("flag", LeafSchema("boolean"))>>
          [] OTHER -> <<"flag">>]

PartA == Fragment("A", "A.properties", "A.required", <<>>)
PartB == Fragment(NoKey, "B.properties", "B.required", <<>>)
\* a part that is composed itself
Composed == Fragment(NoKey, NoKey, NoKey, <<PartA, PartB>>)

\* the schemas of the document: a base fragment with or without `properties`
\* and `required` next to its allOf
Documents ==
    {Fragment(title, properties, required, allOf) :
        title \in {NoKey, "base"},
        properties \in {NoKey, "base.properties"},
        required \in {NoKey, "base.required"},
        allOf \in {<<>>, <<PartA>>, <<PartA, PartB>>, <<Composed>>,
                   <<PartB, Composed>>}}

\* the calls of resolve_schema that are followed
MaxCalls == 3

InitResolve ==
    /\ world \in {Resolved(Objects, schema) : schema \in Documents}
    /\ call = world
    /\ pc = "resolve_schema"
    /\ Start

\* what a call of resolve_schema leaves: the schema it returned, how that
\* schema read when it was returned, and the objects after the call
Resolution(of, r) ==
    [of |-> of, schema |-> r.schema, objects |-> r.objects,
     value |-> Value(r.objects, r.schema)]

\* resolve_schema on the schema of the document (get_request_data line 450,
\* validate_response line 876)
ResolveSchema ==
    /\ pc = "resolve_schema"
    /\ Len(log) < MaxCalls
    /\ LET r == resolve_schema_object(world.objects, world.schema)
       IN  /\ world' = [world EXCEPT !.objects = r.objects]
           /\ log' = Append(log, Resolution("document", r))
    /\ UNCHANGED <<call, result, pc, request, ran, setup, sent, response,
                   get_response, outcome>>

\* resolve_schema on the schema that the call before returned
ResolveResolved ==
    /\ pc = "resolve_schema"
    /\ log # <<>>
    /\ Len(log) < MaxCalls
    /\ LET r == resolve_schema_object(world.objects, log[Len(log)].schema)
       IN  /\ world' = [world EXCEPT !.objects = r.objects]
           /\ log' = Append(log, Resolution("resolved", r))
    /\ UNCHANGED <<call, result, pc, request, ran, setup, sent, response,
                   get_response, outcome>>

NextResolve ==
    \/ ResolveSchema
    \/ ResolveResolved

SpecResolve == InitResolve /\ [][NextResolve]_vars

\* C13: after any number of calls of resolve_schema the document, with its
\* nested dicts and lists, reads as it did before the first call, and every
\* call on the schema of the document returned the same.
C13_resolve_schema_leaves_the_document ==
    /\ Value(world.objects, world.schema) = Value(call.objects, call.schema)
    /\ \A i, j \in DOMAIN log :
          (log[i].of = "document" /\ log[j].of = "document")
          => log[i].value = log[j].value

\* C14: the schema resolve_schema returns has no allOf key; resolving a
\* resolved schema returns a schema that reads the same; and when the schema
\* of the document is resolved next, resolve(resolve(S)) and resolve(S)
\* compare equal.
C14_resolve_schema_is_idempotent ==
    \A i \in DOMAIN log :
        /\ log[i].schema.allOf = <<>>
        /\ log[i].of = "resolved" => log[i].value = log[i - 1].value
        /\ (i > 1 /\ log[i].of = "document" /\ log[i - 1].of = "resolved")
           => Value(log[i].objects, log[i - 1].schema) = log[i].value

\* C14 happens: a schema with allOf inside an allOf part was resolved, the
\* result was resolved again, and the schema was resolved once more
C14_witness ==
    /\ Len(log) = 3
    /\ log[1].of = "document" /\ log[2].of = "resolved" /\ log[3].of = "document"
    /\ \E i \in DOMAIN call.schema.allOf : call.schema.allOf[i].allOf # <<>>
    /\ call.schema.required # NoKey

\* the schema that a resolved schema reads as when the parts are merged by
\* the rules of C25; later_wins: a scalar key takes the value of the later part
MergedValue(a, b, later_wins) ==
    [title |-> IF a.title = NoKey THEN b.title
               ELSE IF b.title = NoKey THEN a.title
               ELSE IF later_wins THEN b.title ELSE a.title,
     properties |-> IF a.properties = None THEN b.properties
                    ELSE IF b.properties = None THEN a.properties
                    ELSE Some(UpdateProperties(a.properties[1], b.properties[1])),
     required |-> IF a.required = None THEN b.required
                  ELSE IF b.required = None THEN a.required
                  ELSE Some(a.required[1] \o b.required[1]),
     allOf |-> <<>>]
RECURSIVE ResolvedValue(_, _)
RECURSIVE MergedParts(_, _, _)
ResolvedValue(v, later_wins) ==
    MergedParts([v EXCEPT !.allOf = <<>>], v.allOf, later_wins)
MergedParts(accumulator, parts, later_wins) ==
    IF parts = <<>> THEN accumulator
    ELSE MergedParts(MergedValue(accumulator, ResolvedValue(Head(parts), later_wins),
                                 later_wins),
                     Tail(parts), later_wins)
\* the objects of the document before the i-th call
ObjectsBefore(i) == IF i = 1 THEN call.objects ELSE log[i - 1].objects

\* C25: every call of resolve_schema on the schema of the document returns
\* the merge of the allOf parts, in order, into the base as the document
\* reads at the call: dict values are updated by the later part, list values
\* are concatenated with duplicates kept, keys only in the part are added, and
\* a scalar key of a later part overrides the earlier value.
C25_later_parts_override ==
    \A i \in DOMAIN log :
        log[i].of = "document"
        => log[i].value
             = ResolvedValue(Value(ObjectsBefore(i), world.schema), TRUE)

\* C25, amended: as above, but a scalar key keeps the value of the earliest
\* part that holds it.
C25_first_scalar_is_kept ==
    \A i \in DOMAIN log :
        log[i].of = "document"
        => log[i].value
             = ResolvedValue(Value(ObjectsBefore(i), world.schema), FALSE)

\* the base and part A both hold a title, `properties` and `required`
C25_witness ==
    /\ log # <<>>
    /\ world.schema = Fragment("base", "base.properties", "base.required", <<PartA>>)
    /\ log[1].value.title = "base"
    /\ log[1].value.properties
         = Some(<<Prop("id", LeafSchema("integer")), Prop("name", LeafSchema("string"))>>)
    /\ log[1].value.required = Some(<<"id", "name">>)

(***************************************************************************)
(* openapi_executors.py: validate_send_response, on the response to a      *)
(* POST or PATCH that test_endpoint sent.                                  *)
(***************************************************************************)
ListV(items) == [t |-> "array", n |-> 0, s |-> items]

\* a == b in Python: True == 1 == 1.0
PyEq(a, b) ==
    \/ a = b
    \/ /\ a.t \in {"integer", "number", "boolean"}
       /\ b.t \in {"integer", "number", "boolean"}
       /\ a.n = b.n /\ a.s = <<>> /\ b.s = <<>>

\* value in [None, [], 1, False, ""]
Cleared(v) == \E c \in {NoneV, ListV(<<>>), IntV(1), BoolV(FALSE), StrV(<<>>)} : PyEq(v, c)

\* the order in which the API writes the properties of a resource
KeyOrder == <<"id", "a", "b", "c", "tags">>

\* a response with a JSON object as its body: the object, whether its href is
\* that of the request ("self"), of another resource ("parent") or absent, the
\* list that the object holds under the rest of the path of the request, and
\* the request
EchoResponse(json, href, items, method, send_json) ==
    [status_code |-> 200, json |-> json, href |-> href, items |-> items,
     request |-> [method |-> method, json |-> send_json]]

\* validate_send_response: the exception it raises, "" when it returns
validate_send_response(a, original) ==
    LET send_json == a.request.json
        \* lines 954-965: the resource that was POSTed, out of the list
        in_list == a.href = "parent" /\ a.items # None /\ a.items[1] # <<>>
        found == IF in_list /\ "id" \in DOMAIN send_json
                 THEN SelectIdx(a.items[1],
                          {i \in DOMAIN a.items[1] :
                              /\ "id" \in DOMAIN a.items[1][i]
                              /\ PyEq(a.items[1][i]["id"], send_json["id"])})
                 ELSE <<>>
        unpacked ==
            IF ~in_list THEN ""
            ELSE IF "id" \notin DOMAIN send_json THEN "KeyError"
            ELSE IF \E i \in DOMAIN a.items[1] : "id" \notin DOMAIN a.items[1][i]
            THEN "KeyError"
            ELSE IF Len(found) # 1 THEN "ValueError"
            ELSE ""
        reference == IF in_list /\ unpacked = "" THEN found[1] ELSE a.json
        \* lines 966-985
        echoed(key) ==
            \/ key \notin DOMAIN reference
            \/ IF send_json[key] = NoneV THEN Cleared(reference[key])
               ELSE PyEq(reference[key], send_json[key])
        \* lines 987-995, in the order of the keys of the original
        unsent == IF original = None THEN <<>>
                  ELSE SelectIdx(KeyOrder,
                           {i \in DOMAIN KeyOrder :
                               /\ KeyOrder[i] \in DOMAIN original[1]
                               /\ KeyOrder[i] \notin DOMAIN send_json})
        changed == {i \in DOMAIN unsent :
                       \/ unsent[i] \notin DOMAIN reference
                       \/ ~PyEq(original[1][unsent[i]], reference[unsent[i]])}
        first == unsent[CHOOSE i \in changed : \A j \in changed : i <= j]
    IN  IF unpacked # "" THEN unpacked
        ELSE IF \E key \in DOMAIN send_json : ~echoed(key) THEN "AssertionError"
        ELSE IF changed = {} THEN ""
        ELSE IF first \notin DOMAIN reference THEN "KeyError"
        ELSE "AssertionError"

\* the bodies that test_endpoint sends
SentBodies ==
    {[a |-> IntV(9)],
     [a |-> IntV(9), tags |-> ListV(<<"x">>)],
     [id |-> StrV(<<"7">>), a |-> IntV(9)],
     [a |-> NoneV]}

\* the resource as the API returns it
ReceivedBodies ==
    {[a |-> IntV(9), b |-> IntV(2)],
     [a |-> IntV(9), b |-> IntV(3)],
     [a |-> IntV(1), b |-> IntV(2)],
     [a |-> NoneV, b |-> IntV(2)],
     [a |-> IntV(9)],
     [a |-> IntV(9), c |-> IntV(4)],
     [a |-> IntV(9), b |-> IntV(2), c |-> IntV(3)],
     [a |-> IntV(9), b |-> IntV(2), tags |-> ListV(<<"x">>)],
     [a |-> IntV(9), b |-> IntV(2), tags |-> ListV(<<"x", "y">>)],
     [a |-> IntV(9), b |-> IntV(2), tags |-> ListV(<<"y">>)]}

\* the resource before the PATCH; None: the GET was refused
OriginalBodies ==
    {None, Some(EmptyDict), Some([a |-> IntV(1), b |-> IntV(2)]),
     Some([a |-> IntV(1), b |-> IntV(2), c |-> IntV(3)])}

\* the 2xx answers of the API to the request under test
EchoAnswers(method, send_json) ==
    {EchoResponse(json, href, None, method, send_json) :
        json \in ReceivedBodies, href \in {"none", "self"}}
    \cup {EchoResponse([a |-> IntV(1)], "parent", items, method, send_json) :
             items \in {None, Some(<<>>),
                        Some(<<[id |-> StrV(<<"7">>), a |-> IntV(9)],
                               [id |-> StrV(<<"8">>), a |-> IntV(1)]>>),
                        Some(<<[id |-> StrV(<<"8">>), a |-> IntV(9)]>>),
                        Some(<<[a |-> IntV(9)]>>)}}

InitEcho ==
    /\ world \in {World(Paths({"get", "post"}, TRUE, ResourceSchema), Unmapped)}
    /\ call \in [method : {"POST", "PATCH"}, json : SentBodies]
    /\ pc = "test_endpoint"
    /\ Start

\* test_endpoint, lines 172-181: before a PATCH, GET the resource as it is
GetOriginalData ==
    /\ pc = "test_endpoint"
    /\ json_data' = call.json
    /\ IF call.method = "PATCH"
       THEN /\ log' = Append(log, "GET")
            /\ original_data' \in OriginalBodies
       ELSE UNCHANGED <<log, original_data>>
    /\ pc' = "perform_validated_request"
    /\ UNCHANGED <<world, call, result, url, request_data, params, headers, ran,
                   setup, sent, response, get_response, outcome>>

\* perform_validated_request, lines 261-263: the request under test is sent
\* and answered; the answer has the expected status, which is below 300
SendRequest ==
    /\ pc = "perform_validated_request"
    /\ log' = Append(log, call.method)
    /\ response' \in {Some(a) : a \in EchoAnswers(call.method, json_data)}
    /\ pc' = "validate_send_response"
    /\ UNCHANGED <<world, call, result, request, ran, setup, sent, get_response,
                   outcome>>

\* validate_response, lines 916-917: the echo validation of the response
ValidateSendResponse ==
    /\ pc = "validate_send_response"
    /\ result' = [done |-> TRUE,
                  err |-> validate_send_response(response[1], original_data)]
    /\ pc' = "done"
    /\ UNCHANGED <<world, call, request, history>>

NextEcho ==
    \/ GetOriginalData
    \/ SendRequest
    \/ ValidateSendResponse

SpecEcho == InitEcho /\ [][NextEcho]_vars

\* the echo rule of C15 on one value: the sent elements of a list are all in
\* the received list, any other value is equal to the received one
Echoed(sent_value, received) ==
    IF sent_value.t = "array"
    THEN received.t = "array" /\ Range(sent_value.s) \subseteq Range(received.s)
    ELSE PyEq(sent_value, received)

\* C15: validate_send_response accepts the response to a request when every
\* sent property that is in the response is echoed (a list: every sent element
\* is in the received list; any other value: equal), and raises AssertionError
\* when one is not.
C15_sent_properties_are_echoed ==
    (/\ result.done
     /\ original_data = None
     /\ response[1].href # "parent"
     /\ \A key \in DOMAIN json_data : json_data[key] # NoneV)
    => LET echoed == \A key \in DOMAIN json_data \cap DOMAIN response[1].json :
                         Echoed(json_data[key], response[1].json[key])
       IN  result.err = IF echoed THEN "" ELSE "AssertionError"

\* C16: the GET for the resource goes out before the PATCH, and with the
\* resource as it was, validate_send_response raises AssertionError when a
\* property of the original that was not sent has another value in the
\* response, and accepts the response when no such property has and every
\* sent property is echoed.
C16_patch_leaves_the_rest ==
    (/\ result.done
     /\ call.method = "PATCH"
     /\ response[1].href # "parent")
    => /\ log = <<"GET", "PATCH">>
       /\ original_data # None
          => LET reference == response[1].json
                 unsent == DOMAIN original_data[1] \ DOMAIN json_data
                 differs(key) == /\ key \in DOMAIN reference
                                 /\ ~PyEq(reference[key], original_data[1][key])
                 echoed == \A key \in DOMAIN json_data \cap DOMAIN reference :
                              IF json_data[key] = NoneV THEN Cleared(reference[key])
                              ELSE PyEq(reference[key], json_data[key])
             IN  /\ (\E key \in unsent : differs(key))
                    => result.err = "AssertionError"
                 /\ (echoed /\ \A key \in unsent :
                                   /\ key \in DOMAIN reference
                                   /\ PyEq(reference[key], original_data[1][key]))
                    => result.err = ""

(***************************************************************************)
(* openapi_executors.py: validate_resource_properties, on the object that  *)
(* validate_response read from the response                                *)
(***************************************************************************)

\* the resolved schemas of a response: the names of its properties, its
\* required names and its additionalProperties ("absent", "false", "true" or
\* the type of a fragment)
ResponseSchemas ==
    [properties : {{"id", "name"}, {"id", "name", "note"}},
     required : SUBSET {"id", "name"},
     additionalProperties : {"absent", "false", "true", "string"}]

\* the objects a response carries
JsonResponses ==
    UNION {[keys -> {StrV(<<"1">>), IntV(1)}] : keys \in SUBSET {"id", "name", "note", "extra"}}

\* lines 930-941: the resource has exactly the properties of the schema
validate_resource_properties(resource, schema_properties) ==
    IF DOMAIN resource # schema_properties
    THEN [done |-> TRUE, err |-> "AssertionError",
          expected |-> schema_properties, got |-> DOMAIN resource]
    ELSE [done |-> TRUE, err |-> "", expected |-> {}, got |-> {}]

InitProperties ==
    /\ world \in ResponseSchemas
    /\ call \in JsonResponses
    /\ pc = "validate_response"
    /\ Start

\* validate_response, lines 898-900
ValidateResourceProperties ==
    /\ pc = "validate_response"
    /\ result' = validate_resource_properties(call, world.properties)
    /\ pc' = "done"
    /\ UNCHANGED <<world, call, request, history>>

NextProperties == ValidateResourceProperties

SpecProperties == InitProperties /\ [][NextProperties]_vars

\* C17: when the keys of the body differ from the names of the schema's
\* properties, validate_resource_properties fails exactly when the body has a
\* key that additionalProperties does not permit (false or absent: none; true:
\* any; a typed fragment: those whose value has the type) or lacks a required
\* key; and the failure for the schema {id, name} with additionalProperties
\* false and the body {id, name, extra} names `extra`.
C17_additional_and_required_are_honoured ==
    (result.done /\ DOMAIN call # world.properties)
    => LET permitted(key) ==
               CASE world.additionalProperties = "true" -> TRUE
                 [] world.additionalProperties \in {"false", "absent"} -> FALSE
                 [] OTHER -> call[key].t = world.additionalProperties
           extra == {key \in DOMAIN call \ world.properties : ~permitted(key)}
           missing == world.required \ DOMAIN call
       IN  /\ result.err = "AssertionError" <=> (extra # {} \/ missing # {})
           /\ (/\ world.properties = {"id", "name"}
               /\ world.additionalProperties = "false"
               /\ DOMAIN call = {"id", "name", "extra"})
              => "extra" \in result.got

(***************************************************************************)
(* openapi_executors.py: validate_response, the validation of the response *)
(* against the document and its escalation by response_validation          *)
(***************************************************************************)

ValidationLevel == {"DISABLED", "INFO", "WARN", "STRICT"}

\* the number of errors the validator reports at most
MaxErrors == 2

\* validation_result.errors: the validator reports the errors it finds
ValidationErrors ==
    UNION {[1..n -> {"ServerNotFound", "InvalidSchemaValue", "InvalidData"}] : n \in 0..MaxErrors}

\* lines 845-848 (the mutant: the errors as the validator reported them)
errors_as_reported(errors, disable_server_validation) == errors
errors_to_escalate(errors, disable_server_validation) ==
    IF disable_server_validation
    THEN SelectSeq(errors, LAMBDA e : e # "ServerNotFound")
    ELSE errors

InitLevels ==
    /\ world \in [response_validation : ValidationLevel,
                  disable_server_validation : BOOLEAN]
    /\ call = [reported |-> <<>>, errors |-> <<>>]
    /\ pc = "validate"
    /\ Start

\* lines 838-844: the response is validated against the document
Validate ==
    /\ pc = "validate"
    /\ \E errors \in ValidationErrors :
          call' = [reported |-> errors, errors |-> errors]
    /\ pc' = "filter"
    /\ UNCHANGED <<world, result, request, history>>

\* lines 845-848: errors on the server address are dropped
FilterErrors ==
    /\ pc = "filter"
    /\ call' = [call EXCEPT !.errors =
                   errors_to_escalate(@, world.disable_server_validation)]
    /\ pc' = "escalate"
    /\ UNCHANGED <<world, result, request, history>>

\* lines 849-856: STRICT raises the first error, WARN and INFO log every
\* error at their level and the validation goes on at line 858
Escalate ==
    /\ pc = "escalate"
    /\ IF world.response_validation = "STRICT" /\ call.errors # <<>>
       THEN /\ result' = [done |-> TRUE, err |-> Head(call.errors)]
            /\ pc' = "done"
            /\ UNCHANGED log
       ELSE /\ result' = [done |-> TRUE, err |-> ""]
            /\ pc' = "get_response_spec"
            /\ log' = IF world.response_validation \in {"WARN", "INFO"}
                      THEN [i \in 1..Len(call.errors) |->
                               [level |-> world.response_validation,
                                error |-> call.errors[i]]]
                      ELSE log
    /\ UNCHANGED <<world, call, request, ran, setup, sent, response,
                   get_response, outcome>>

NextLevels ==
    \/ Validate
    \/ FilterErrors
    \/ Escalate

SpecLevels == InitLevels /\ [][NextLevels]_vars

MaxValues == 2

\* values of a type; an object is the list of the values of its fields
ValuesOfType(value_type) ==
    CASE value_type = "string" -> {StrV(<<>>), StrV(<<"A">>), StrV(<<"B">>)}
      [] value_type = "integer" -> {IntV(-1), IntV(0), IntV(1), IntV(2)}
      [] value_type = "number" -> {NumV(-1), NumV(0), NumV(1)}
      [] value_type = "array" -> {ListV(<<>>), ListV(<<"x">>), ListV(<<"y">>)}
      [] value_type = "object" -> {[t |-> "object", n |-> 0, s |-> <<r, g>>] :
                                     r \in {"0", "255"}, g \in {"0", "255"}}
      [] OTHER -> {BoolV(TRUE), BoolV(FALSE)}

InitValues ==
    /\ world \in {"string", "integer", "number", "array", "object", "boolean", "bool"}
    /\ call \in UNION {[1..n -> ValuesOfType(world)] : n \in 0..MaxValues}
    /\ pc = "value_utils"
    /\ Start

\* get_invalid_value_from_enum on the enum of a schema, which is not empty
GetInvalidValueFromEnum ==
    /\ pc = "value_utils"
    /\ call # <<>>
    /\ result' = [done |-> TRUE, of |-> "enum",
                  value |-> get_invalid_value_from_enum(call, world)]
    /\ pc' = "done"
    /\ UNCHANGED <<world, call, request, history>>

\* get_invalid_value_from_constraint on the values of a constraint
GetInvalidValueFromConstraint ==
    /\ pc = "value_utils"
    /\ result' = [done |-> TRUE, of |-> "constraint",
                  value |-> get_invalid_value_from_constraint(call, world)]
    /\ pc' = "done"
    /\ UNCHANGED <<world, call, request, history>>

NextValues ==
    \/ GetInvalidValueFromEnum
    \/ GetInvalidValueFromConstraint

SpecValues == InitValues /\ [][NextValues]_vars

\* C19: for an enum of type string, integer, number, array or object,
\* get_invalid_value_from_enum returns a value that is no member of the enum
\* (["A", "B"] gives "AB"); for any other type it returns None.
C19_invalid_value_is_outside_the_enum ==
    (result.done /\ result.of = "enum")
    => /\ world \in {"string", "integer", "number", "array", "object"}
          => result.value \notin Range(call)
       /\ world \in {"boolean", "bool"} => result.value = NoneV
       /\ (world = "string" /\ call = <<StrV(<<"A">>), StrV(<<"B">>)>>)
          => result.value = StrV(<<"A", "B">>)

DeclaredBounds == {None, Some(-1), Some(0), Some(1), Some(3)}

ValueSchemas ==
    {[LeafSchema(type) EXCEPT !.minimum = minimum, !.maximum = maximum,
                              !.exclusiveMinimum = exclusiveMinimum,
                              !.exclusiveMaximum = exclusiveMaximum,
                              !.format = format] :
        type \in {"integer", "number"},
        minimum \in DeclaredBounds, maximum \in DeclaredBounds,
        exclusiveMinimum \in BOOLEAN, exclusiveMaximum \in BOOLEAN,
        format \in {None, Some("int64")}}
    \cup {[LeafSchema("integer") EXCEPT !.enum = enum, !.minimum = minimum] :
             enum \in {<<IntV(1), IntV(2)>>, <<IntV(1)>>},
             minimum \in {None, Some(1)}}
    \cup {[LeafSchema("string") EXCEPT !.enum = enum, !.minLength = minLength,
                                       !.maxLength = maxLength] :
             enum \in {<<>>, <<StrV(<<"A">>), StrV(<<"B">>)>>},
             minLength \in {None, Some(2)}, maxLength \in {None, Some(3)}}
    \cup {LeafSchema("boolean"), LeafSchema("array")}

\* the values of a PropertyValueConstraint on a property of the type; none:
\* the empty list
ConstraintValues(type) ==
    {<<>>, <<IGNORE>>}
    \cup CASE type = "integer" -> {<<IntV(1)>>, <<IntV(0), IntV(3)>>}
           [] type = "number" -> {<<NumV(0)>>}
           [] type = "string" -> {<<StrV(<<>>)>>, <<StrV(<<"A">>)>>}
           [] type = "boolean" -> {<<BoolV(TRUE)>>, <<BoolV(TRUE), BoolV(FALSE)>>}
           [] OTHER -> {}

InitLeaf ==
    /\ world \in ValueSchemas
    /\ call \in ConstraintValues(world.type)
    /\ pc = "get_valid_value"
    /\ Start

\* get_valid_value(value_schema)
GetValidValue ==
    /\ pc = "get_valid_value"
    /\ \E value \in get_valid_value(world, BuildDraws) :
          /\ result' = [done |-> IsRaised(value), valid |-> value, value |-> NoneV]
          /\ pc' = IF IsRaised(value) THEN "done" ELSE "get_invalid_value"
    /\ UNCHANGED <<world, call, request, history>>

\* get_invalid_value(value_schema, current_value, values_from_constraint)
GetInvalidValue ==
    /\ pc = "get_invalid_value"
    /\ \E value \in get_invalid_value(world, result.valid, call) :
          result' = [result EXCEPT !.done = TRUE, !.value = value]
    /\ pc' = "done"
    /\ UNCHANGED <<world, call, request, history>>

NextLeaf ==
    \/ GetValidValue
    \/ GetInvalidValue

SpecLeaf == InitLeaf /\ [][NextLeaf]_vars

\* the range of an integer schema in the words of C21
IntegerLo(value_schema) ==
    LET lo == IF value_schema.minimum # None THEN IntV(value_schema.minimum[1])
              ELSE IF value_schema.format = Some("int64") THEN Int64(-1, 0)
              ELSE IntV(-2147483647 - 1)
    IN  IF value_schema.exclusiveMinimum THEN [lo EXCEPT !.n = @ + 1] ELSE lo
IntegerHi(value_schema) ==
    LET hi == IF value_schema.maximum # None THEN IntV(value_schema.maximum[1])
              ELSE IF value_schema.format = Some("int64") THEN Int64(1, -1)
              ELSE IntV(2147483647)
    IN  IF value_schema.exclusiveMaximum THEN [hi EXCEPT !.n = @ - 1] ELSE hi

\* C21: for an integer schema without enum whose adjusted range is not empty,
\* get_valid_value returns an integer v with lo <= v <= hi, lo the minimum
\* (default: the 32-bit minimum, the 64-bit minimum for int64) plus 1 when
\* exclusiveMinimum, hi the maximum (default likewise) minus 1 when
\* exclusiveMaximum.
C21_valid_integer_is_in_range ==
    (/\ pc # "get_valid_value"
     /\ world.type = "integer" /\ world.enum = <<>>
     /\ IntLeq(IntegerLo(world), IntegerHi(world)))
    => /\ result.valid.t = "integer"
       /\ IntLeq(IntegerLo(world), result.valid)
       /\ IntLeq(result.valid, IntegerHi(world))

\* an int64 schema with an exclusive minimum and no minimum: -2**63 + 1
C21_witness ==
    /\ pc # "get_valid_value"
    /\ world.type = "integer" /\ world.format = Some("int64")
    /\ world.minimum = None /\ world.exclusiveMinimum
    /\ result.valid = Int64(-1, 1)

\* a value is one that get_valid_value can return for the integer or number
\* schema: for a number the range is [minimum, maximum] with the defaults of
\* get_random_float, without both ends when a bound is exclusive
ValidUnder(value_schema, v) ==
    IF value_schema.type = "integer"
    THEN IntLeq(IntegerLo(value_schema), v) /\ IntLeq(v, IntegerHi(value_schema))
    ELSE LET minimum == IF value_schema.minimum # None THEN value_schema.minimum[1]
                        ELSE value_schema.maximum[1] - 1
             maximum == IF value_schema.maximum # None THEN value_schema.maximum[1]
                        ELSE value_schema.minimum[1] + 1
         IN  IF value_schema.exclusiveMinimum \/ value_schema.exclusiveMaximum
             THEN minimum < v.n /\ v.n < maximum
             ELSE minimum <= v.n /\ v.n <= maximum

\* C22: for an integer or number schema that declares a minimum or a maximum
\* and no enum, get_invalid_value without constraint values returns a number
\* that get_valid_value cannot return for the schema.
C22_invalid_number_is_out_of_range ==
    (/\ pc = "done" /\ ~IsRaised(result.valid)
     /\ world.type \in {"integer", "number"}
     /\ world.minimum # None \/ world.maximum # None
     /\ world.enum = <<>>
     /\ call = <<>>)
    => /\ result.value.t \in {"integer", "number", "boolean"}
       /\ result.value.s = <<>>
       /\ ~ValidUnder(world, result.value)

\* C26: get_invalid_value returns the result of the constraint values when
\* there are any and their result is not None; else that of the enum when
\* there is one and its result is not None; else the value out of bounds when
\* that is not None; else the type flip: the nested value for the type string,
\* a random string for any other type.  It never returns None.
C26_strategies_in_order ==
    (pc = "done" /\ ~IsRaised(result.valid))
    => LET from_constraint == get_invalid_value_from_constraint(call, world.type)
           from_enum == get_invalid_value_from_enum(world.enum, world.type)
           out_of_bounds == get_value_out_of_bounds(world, result.valid)
       IN  /\ result.value # NoneV
           /\ IF call # <<>> /\ from_constraint # NoneV
              THEN result.value = from_constraint
              ELSE IF world.enum # <<>> /\ from_enum # NoneV
              THEN result.value = from_enum
              ELSE IF out_of_bounds # {NoneV}
              THEN result.value \in out_of_bounds
              ELSE IF world.type = "string"
              THEN result.value = NestedInvalid
              ELSE result.value \in {Hex(x) : x \in InvalidDraws}

\* an integer with the enum [1, 2], a minimum and the constraint values [1]:
\* the result is that of the constraint values, 2, not that of the enum, 3
C26_witness ==
    /\ pc = "done"
    /\ world.type = "integer" /\ world.enum = <<IntV(1), IntV(2)>>
    /\ world.minimum = Some(1)
    /\ call = <<IntV(1)>>
    /\ result.value = IntV(2)

(***************************************************************************)
(* openapi_executors.py: test_invalid_url                                  *)
(***************************************************************************)

\* sub-resources of a resource: "/r/{id}/s" and "/r/{id}/s/{sub}"
SubCollection == <<"", "r", "{id}", "s">>
SubItem == <<"", "r", "{id}", "s", "{sub}">>

NestedWorld ==
    World(Paths({"get", "post"}, TRUE, ResourceSchema)
          \o <<[path |-> SubCollection,
                operations |-> [m \in {"get", "post"} |->
                    IF m = "get" THEN Operation("list_s", <<>>, None)
                    ELSE Operation("post_s", <<>>, JsonBody(ResourceSchema))]],
               [path |-> SubItem,
                operations |-> [m \in {"get"} |-> Operation("get_s", <<>>, None)]]>>,
          Unmapped)

\* line 136: the status expected of an invalid url
expected_status_code == 404

InitInvalidUrl ==
    /\ world = NestedWorld
    /\ call \in {[endpoint |-> world.paths[i].path, method |-> "GET",
                  require_body_for_invalid_url |-> require_body] :
                    i \in {1, 2, 4, 5}, require_body \in BOOLEAN}
    /\ pc = "test_invalid_url"
    /\ Start

\* line 138: valid_url = get_valid_url(endpoint, method)
GetValidUrl ==
    /\ pc = "test_invalid_url"
    /\ \E valid_url \in get_valid_url(world, call.endpoint, call.method) :
          /\ url' = valid_url.url
          /\ outcome' = valid_url.err
          /\ pc' = IF valid_url.err # "" THEN "done" ELSE "get_invalidated_url"
    /\ UNCHANGED <<world, call, result, request_data, json_data, params, headers,
                   original_data, ran, log, setup, sent, response, get_response>>

\* lines 140-144: get_invalidated_url(valid_url); without an invalidated url
\* the test case is skipped
GetInvalidatedUrl ==
    /\ pc = "get_invalidated_url"
    /\ \E invalidated \in get_invalidated_url(world, url) :
          /\ result' = [done |-> TRUE, err |-> invalidated.err, url |-> invalidated.url]
          /\ outcome' = IF invalidated.err # "" THEN invalidated.err
                        ELSE IF invalidated.url = None THEN "SkipExecution"
                        ELSE ""
          /\ pc' = IF invalidated.err # "" \/ invalidated.url = None THEN "done"
                   ELSE "authorized_request"
    /\ UNCHANGED <<world, call, request, ran, log, setup, sent, response,
                   get_response>>

\* lines 146-159: the request to the invalidated url, with the data of a
\* valid request when require_body_for_invalid_url
SendInvalidUrl ==
    /\ pc = "authorized_request"
    /\ \E built \in IF call.require_body_for_invalid_url
                    THEN get_request_data(world, call.endpoint, call.method)
                    ELSE {NotBuilt} :
          /\ request_data' = built
          /\ IF built.err # ""
             THEN /\ outcome' = built.err
                  /\ UNCHANGED <<sent, response>>
             ELSE \E a \in {Response(st, "dict", None, "none", None) :
                               st \in {200, expected_status_code}} :
                     /\ sent' = Append(sent, [method |-> call.method, url |-> result.url[1]])
                     /\ response' = Some(a)
                     /\ outcome' = IF a.status_code # expected_status_code
                                   THEN "AssertionError" ELSE "PASS"
    /\ pc' = "done"
    /\ UNCHANGED <<world, call, result, url, json_data, params, headers,
                   original_data, ran, log, setup, get_response>>

NextInvalidUrl ==
    \/ GetValidUrl
    \/ GetInvalidatedUrl
    \/ SendInvalidUrl

SpecInvalidUrl == InitInvalidUrl /\ [][NextInvalidUrl]_vars

\* C23: get_invalidated_url returns the valid url with every path parameter
\* replaced by a random UUID, and None when the endpoint has no path
\* parameter; test_invalid_url then skips the test case and sends no request.
C23_every_path_parameter_is_replaced ==
    (result.done /\ result.err = "")
    => LET at == {i \in DOMAIN call.endpoint : IsParam(call.endpoint[i])}
       IN  IF at = {}
           THEN result.url = None /\ outcome = "SkipExecution" /\ sent = <<>>
           ELSE /\ result.url # None
                /\ DOMAIN result.url[1] = DOMAIN url
                /\ \A i \in DOMAIN url :
                      IF i \in at THEN result.url[1][i] \in InvalidDraws
                      ELSE result.url[1][i] = url[i]

(***************************************************************************)
(* openapi_reader.py: the test cases that OpenApiReader generates.  A path *)
(* is the list of its characters ("{id}" counts as one), so that           *)
(* str.startswith is the prefix of lists.                                  *)
(***************************************************************************)

\* str(response) and method.upper() on the values in use; a response that is
\* a string is the list of that one string
str(v) ==
    IF v.t = "string" THEN v.s[1]
    ELSE CASE v.n = 200 -> "200" [] v.n = 201 -> "201" [] v.n = 404 -> "404"
           [] OTHER -> "422"
upper(method) ==
    CASE method = "get" -> "GET" [] method = "post" -> "POST"
      [] method = "put" -> "PUT" [] method = "patch" -> "PATCH"
      [] method = "delete" -> "DELETE" [] OTHER -> method

\* class Test, lines 10-27
Test(path, method, response_) ==
    [class |-> "Test", path |-> path, method |-> lower(method),
     response |-> str(response_)]
Test__eq__(self, other) ==
    IF other.class # "Test" THEN FALSE
    ELSE /\ self.path = other.path
         /\ self.method = other.method
         /\ self.response = other.response

\* included_path.partition("*")[0]
BeforeStar(pattern) ==
    SubSeq(pattern, 1, (CHOOSE i \in DOMAIN pattern :
                           pattern[i] = "*" /\ \A j \in 1..(i - 1) : pattern[j] # "*") - 1)
startswith(string, prefix) ==
    Len(prefix) <= Len(string) /\ SubSeq(string, 1, Len(prefix)) = prefix

\* (the mutant: no wildcard)
matches_exactly(path, patterns) == path \in Range(patterns)
\* matches_include_pattern and matches_ignore_pattern of _filter_paths
matches_pattern(path, patterns) ==
    \E i \in DOMAIN patterns :
        \/ path = patterns[i]
        \/ /\ patterns[i] # <<>> /\ patterns[i][Len(patterns[i])] = "*"
           /\ startswith(path, BeforeStar(patterns[i]))

\* _filter_paths: the paths that stay in the document
_filter_paths(paths, included_paths, ignored_paths) ==
    LET included == IF included_paths # <<>>
                    THEN SelectSeq(paths, LAMBDA p : matches_pattern(p.path, included_paths))
                    ELSE paths
    IN  IF ignored_paths # <<>>
        THEN SelectSeq(included, LAMBDA p : ~matches_pattern(p.path, ignored_paths))
        ELSE included

RECURSIVE Flatten(_)
Flatten(lists) == IF lists = <<>> THEN <<>> ELSE Head(lists) \o Flatten(Tail(lists))
Reversed(seq) == [i \in DOMAIN seq |-> seq[Len(seq) + 1 - i]]

\* get_data_from_source: the arguments of the test cases, in order
get_data_from_source(paths, config) ==
    LET ignored_responses_ == [i \in DOMAIN config.ignored_responses |->
                                  str(config.ignored_responses[i])]
        ignored_tests == [i \in DOMAIN config.ignored_testcases |->
                             Test(config.ignored_testcases[i].path,
                                  config.ignored_testcases[i].method,
                                  config.ignored_testcases[i].response)]
        kept(path, method, response_) ==
            ~ \/ response_ = "default"
              \/ response_ \in Range(ignored_responses_)
              \/ \E i \in DOMAIN ignored_tests :
                    Test__eq__(Test(path, method, StrV(<<response_>>)), ignored_tests[i])
        of_item(path, item) ==
            IF item.name \notin {"get", "put", "post", "delete", "patch"} THEN <<>>
            ELSE LET responses == SelectSeq(item.responses,
                                            LAMBDA r : kept(path, item.name, r))
                 IN  [i \in DOMAIN responses |->
                         [path |-> path, method |-> upper(item.name),
                          status_code |-> responses[i]]]
        of_path(p) == LET items == Reversed(p.items)
                      IN  Flatten([i \in DOMAIN items |-> of_item(p.path, items[i])])
        filtered == _filter_paths(paths, config.included_paths, config.ignored_paths)
    IN  Flatten([i \in DOMAIN filtered |-> of_path(filtered[i])])

\* the paths section of a document: path items with their operations and
\* other keys, and the responses of each operation
ReaderPaths ==
    <<[path |-> <<"/", "r">>,
       items |-> <<[name |-> "parameters", responses |-> <<>>],
                   [name |-> "get", responses |-> <<"200", "default">>],
                   [name |-> "post", responses |-> <<"201", "422">>]>>],
      [path |-> <<"/", "r", "/", "{id}">>,
       items |-> <<[name |-> "get", responses |-> <<"200", "404">>],
                   [name |-> "head", responses |-> <<"200">>],
                   [name |-> "delete", responses |-> <<"404">>]>>],
      [path |-> <<"/", "r", "e", "f">>,
       items |-> <<[name |-> "patch", responses |-> <<"200", "404">>]>>]>>

Tuple(path, method, response_) ==
    [class |-> "tuple", path |-> path, method |-> method, response |-> response_]

ReaderConfigs ==
    [included_paths : {<<>>, << <<"/", "r">> >>, << <<"/", "r", "*">> >>,
                       << <<"/", "r", "e", "f">>, <<"/", "r", "/", "*">> >>},
     ignored_paths : {<<>>, << <<"/", "r", "/", "*">> >>, << <<"/", "r", "*">> >>,
                      << <<"/", "x">>, <<"/", "r">> >>},
     ignored_responses : {<<>>, <<IntV(404)>>, <<StrV(<<"422">>), IntV(200)>>},
     ignored_testcases : {<<>>,
                          <<Tuple(<<"/", "r">>, "GET", IntV(200))>>,
                          <<Tuple(<<"/", "r", "e", "f">>, "patch", StrV(<<"404">>)),
                            Tuple(<<"/", "r">>, "POST", IntV(201))>>}]

InitReader ==
    /\ world = ReaderPaths
    /\ call \in ReaderConfigs
    /\ pc = "get_data_from_source"
    /\ Start

GetDataFromSource ==
    /\ pc = "get_data_from_source"
    /\ result' = [done |-> TRUE, test_data |-> get_data_from_source(world, call)]
    /\ pc' = "done"
    /\ UNCHANGED <<world, call, request, history>>

NextReader == GetDataFromSource

SpecReader == InitReader /\ [][NextReader]_vars

\* C24 in its words: a path matches an entry when it equals it or starts with
\* what precedes the entry's trailing `*`
MatchesEntry(path, entries) ==
    \E i \in DOMAIN entries :
        \/ path = entries[i]
        \/ /\ entries[i] # <<>> /\ entries[i][Len(entries[i])] = "*"
           /\ startswith(path, SubSeq(entries[i], 1, Len(entries[i]) - 1))

\* C24: get_data_from_source yields exactly one test case for each (path,
\* method, response) of the document whose path is included (when
\* included_paths is given) and not ignored, whose method is one of get, put,
\* post, delete, patch, whose response is not `default`, not in
\* ignored_responses, and which is not in ignored_testcases (method compared
\* without case, response as string); a Test never equals a tuple.
C24_one_test_case_per_operation_response ==
    result.done
    => LET lower_of(m) == CHOOSE l \in {"get", "put", "post", "delete", "patch"} :
                              upper(l) = m
           expected ==
               {[path |-> world[p].path, method |-> upper(world[p].items[i].name),
                 status_code |-> world[p].items[i].responses[r]] :
                   <<p, i, r>> \in
                     {x \in (DOMAIN world) \X (1..3) \X (1..2) :
                        /\ x[2] \in DOMAIN world[x[1]].items
                        /\ x[3] \in DOMAIN world[x[1]].items[x[2]].responses
                        /\ LET path == world[x[1]].path
                               method == world[x[1]].items[x[2]].name
                               response_ == world[x[1]].items[x[2]].responses[x[3]]
                           IN  /\ call.included_paths # <<>>
                                  => MatchesEntry(path, call.included_paths)
                               /\ ~MatchesEntry(path, call.ignored_paths)
                               /\ method \in {"get", "put", "post", "delete", "patch"}
                               /\ response_ # "default"
                               /\ \A k \in DOMAIN call.ignored_responses :
                                     str(call.ignored_responses[k]) # response_
                               /\ \A k \in DOMAIN call.ignored_testcases :
                                     LET t == call.ignored_testcases[k]
                                     IN  ~ /\ t.path = path
                                           /\ lower(t.method) = method
                                           /\ str(t.response) = response_}}
       IN  /\ Range(result.test_data) = expected
           /\ Len(result.test_data) = Cardinality(expected)
           /\ \A k \in DOMAIN call.ignored_testcases :
                 LET t == call.ignored_testcases[k]
                 IN  ~Test__eq__(Test(t.path, t.method, t.response), t)

\* "/r*" is included, "/r/*" is ignored and 404 is an ignored response: the
\* test cases are those of "/r" and "/ref" without their 404
C24_witness ==
    /\ result.done
    /\ call.included_paths = << <<"/", "r", "*">> >>
    /\ call.ignored_paths = << <<"/", "r", "/", "*">> >>
    /\ call.ignored_responses = <<IntV(404)>>
    /\ call.ignored_testcases = <<>>
    /\ result.test_data =
          <<[path |-> <<"/", "r">>, method |-> "POST", status_code |-> "201"],
            [path |-> <<"/", "r">>, method |-> "POST", status_code |-> "422"],
            [path |-> <<"/", "r">>, method |-> "GET", status_code |-> "200"],
            [path |-> <<"/", "r", "e", "f">>, method |-> "PATCH", status_code |-> "200"]>>

(***************************************************************************)
(* get_parametrized_endpoint on the paths of a document and on the         *)
(* concrete paths made from them.                                          *)
(***************************************************************************)
\* tests/server/testserver.py: "/events/", declared with a trailing slash;
\* str.split("/") yields an empty last part for it
Events == <<"", "events", "">>
\* an item of the collection with a literal last part
Me == <<"", "r", "me">>

\* the keys of the paths section
DeclaredPaths == {Collection, Item, SubCollection, SubItem, Me, Events}

\* a path of the document with a GET
PathItem(path) ==
    [path |-> path, operations |-> [m \in {"get"} |-> Operation("get", <<>>, None)]]

\* the documents: one or two paths, in document order
PathDocuments ==
    {World(<<PathItem(path)>>, Unmapped) : path \in DeclaredPaths}
    \cup {World(<<PathItem(pair[1]), PathItem(pair[2])>>, Unmapped) :
             pair \in {pq \in DeclaredPaths \X DeclaredPaths : pq[1] # pq[2]}}

\* the (partially) resolved endpoints of a path: each path parameter is kept
\* or replaced by an id
RECURSIVE ResolvedEndpoints(_)
ResolvedEndpoints(path) ==
    IF path = <<>> THEN {<<>>}
    ELSE LET head == ResolvedEndpoints(SubSeq(path, 1, Len(path) - 1))
             part == path[Len(path)]
         IN  {Append(h, p) : h \in head,
                             p \in IF IsParam(part) THEN {part, "7", "8"} ELSE {part}}

\* the endpoints asked for: those of the document, and one of no document
InitPaths ==
    /\ world \in PathDocuments
    /\ call \in [endpoint : UNION {ResolvedEndpoints(world.paths[i].path) : i \in DOMAIN world.paths}
                            \cup {<<"", "x">>}]
    /\ pc = "get_parametrized_endpoint"
    /\ result = NotCalled
    /\ url = <<>> /\ request_data = NoRequestData("") /\ json_data = EmptyDict
    /\ params = EmptyDict /\ headers = EmptyDict /\ original_data = None
    /\ ran = <<>> /\ log = <<>> /\ setup = <<>> /\ sent = <<>>
    /\ response = None /\ get_response = None /\ outcome = ""

GetParametrizedEndpoint ==
    /\ pc = "get_parametrized_endpoint"
    /\ LET spec_endpoint == get_parametrized_endpoint(world, call.endpoint)
       IN  result' = IF spec_endpoint = None
                     THEN [done |-> TRUE, err |-> "ValueError", value |-> <<>>]
                     ELSE [done |-> TRUE, err |-> "", value |-> spec_endpoint[1]]
    /\ pc' = "done"
    /\ UNCHANGED <<world, call, request, history>>

NextPaths == GetParametrizedEndpoint

SpecPaths == InitPaths /\ [][NextPaths]_vars

\* a pattern fits an endpoint: as many segments, and the literal ones are equal
Fits(pattern, endpoint) ==
    /\ Len(pattern) = Len(endpoint)
    /\ \A i \in DOMAIN pattern : IsParam(pattern[i]) \/ pattern[i] = endpoint[i]

\* C29: for a path of the document, or a concrete path made from one by
\* putting ids in place of its parameters, get_parametrized_endpoint returns a
\* path of the document with as many segments whose literal segments equal
\* the given ones, paths declared with a trailing slash included; it raises
\* ValueError only when no path of the document fits.
C29_declared_paths_are_matched ==
    result.done
    => IF \E i \in DOMAIN world.paths : Fits(world.paths[i].path, call.endpoint)
       THEN /\ result.err = ""
            /\ \E i \in DOMAIN world.paths : world.paths[i].path = result.value
            /\ Fits(result.value, call.endpoint)
       ELSE result.err = "ValueError"

(***************************************************************************)
(* get_random_float, one step per statement of its loop. Floats are        *)
(* followed on the lattice of the representable values: a float is the     *)
(* index of its lattice point, and two floats whose indices differ by one  *)
(* are adjacent, with no float in between.                                 *)
(***************************************************************************)
\* the lattice points per 1.0
Grid == 2

\* the bounds a number schema declares, as lattice points
FloatBounds == {None, Some(0), Some(1), Some(2), Some(3)}

FloatSchemas ==
    {[LeafSchema("number") EXCEPT !.minimum = lo, !.maximum = hi,
                                  !.exclusiveMinimum = xlo, !.exclusiveMaximum = xhi] :
        lo \in FloatBounds, hi \in FloatBounds, xlo \in BOOLEAN, xhi \in BOOLEAN}

\* minimum and maximum after lines 94-103
float_minimum(value_schema) ==
    IF value_schema.minimum # None THEN value_schema.minimum[1]
    ELSE IF value_schema.maximum = None THEN 0 - Grid
    ELSE value_schema.maximum[1] - Grid

float_maximum(value_schema) ==
    IF value_schema.maximum # None THEN value_schema.maximum[1]
    ELSE IF value_schema.minimum = None THEN Grid
    ELSE value_schema.minimum[1] + Grid

\* exclusive: both boundaries are excluded if one boundary is exclusive
float_exclusive(value_schema) ==
    value_schema.exclusiveMinimum \/ value_schema.exclusiveMaximum

\* random.uniform(a, b): a + (b - a) * random(), rounded to a float of [a, b]
uniform(a, b) == a .. b

InitFloat ==
    /\ world \in FloatSchemas
    /\ call = [minimum |-> float_minimum(world), maximum |-> float_maximum(world),
               exclusive |-> float_exclusive(world)]
    /\ pc = "get_random_float"
    /\ result = NotCalled
    /\ url = <<>> /\ request_data = NoRequestData("") /\ json_data = EmptyDict
    /\ params = EmptyDict /\ headers = EmptyDict /\ original_data = None
    /\ ran = <<>> /\ log = <<>> /\ setup = <<>> /\ sent = <<>>
    /\ response = None /\ get_response = None /\ outcome = ""

\* lines 94-115 and, when no boundary is exclusive, line 120
GetRandomFloat ==
    /\ pc = "get_random_float"
    /\ IF world.minimum # None /\ call.maximum < call.minimum
       THEN /\ result' = [done |-> TRUE, err |-> "ValueError", value |-> 0]
            /\ pc' = "done"
       ELSE IF call.exclusive /\ call.minimum = call.maximum
       THEN /\ result' = [done |-> TRUE, err |-> "ValueError", value |-> 0]
            /\ pc' = "done"
       ELSE IF call.exclusive
       THEN /\ result' = result
            /\ pc' = "while exclusive"
       ELSE /\ \E drawn \in uniform(call.minimum, call.maximum) :
                  result' = [done |-> TRUE, err |-> "", value |-> drawn]
            /\ pc' = "done"
    /\ UNCHANGED <<world, call, request, history>>

\* lines 116-119: one turn of the loop
Resample ==
    /\ pc = "while exclusive"
    /\ \E drawn \in uniform(call.minimum, call.maximum) :
          IF call.minimum < drawn /\ drawn < call.maximum
          THEN /\ result' = [done |-> TRUE, err |-> "", value |-> drawn]
               /\ pc' = "done"
          ELSE /\ result' = [done |-> FALSE, err |-> "", value |-> drawn]
               /\ pc' = pc
    /\ UNCHANGED <<world, call, request, history>>

NextFloat ==
    \/ GetRandomFloat
    \/ Resample

\* the interpreter keeps running, and a value that uniform can draw at every
\* turn of the loop is drawn at some turn
SpecFloat ==
    /\ InitFloat /\ [][NextFloat]_vars
    /\ WF_vars(NextFloat)
    /\ SF_vars(Resample /\ result'.done)

\* C30: get_random_float always terminates: every call ends, by a ValueError
\* or by a value, after a bounded number of turns of its loop.
C30_get_random_float_terminates == <>(result.done)

====
